---- MODULE Spec2Model ----
(***************************************************************************)
(* Content repository engine of the-lab-education-backend:                 *)
(*   FileSystemService      (src/src/services/file_system_service.py)      *)
(*   ContentScannerService  (src/src/services/content_scanner_service.py)  *)
(*   ULFParserService       (src/src/services/ulf_parser_service.py)       *)
(*   update_lesson_raw      (src/src/api/v1/lessons.py)                    *)
(*                                                                         *)
(* A string is a sequence of tokens; a token is an indivisible chunk of    *)
(* characters ("/", "..", "content", "2", ".lesson", ...).  The tokens of  *)
(* a path string are chosen so that none is a character prefix of another  *)
(* token that can stand at the same place of the content root's rendering, *)
(* hence str.startswith on characters is startswith on tokens.             *)
(* A path (pathlib.Path) is a sequence of segments, each segment a string  *)
(* without "/".  The modelled file system holds no symbolic links.         *)
(***************************************************************************)
EXTENDS Integers, Sequences, FiniteSets, TLC

VARIABLES
    fs,      \* the file system: existing absolute path -> [kind, content]
    last,    \* the last call: operation, arguments, outcome, OS calls made
    steps,   \* number of calls made so far (SpecStore), of mutations (SpecTree)
    cache,   \* ContentScannerService._cache: the slot of the content tree
    dirty,   \* a Store mutation happened and clear_cache() was not called since
    _lesson_path_cache,  \* lessons._lesson_path_cache: slug -> path of its file
    tasks,   \* the build_content_tree coroutines in flight on one instance, the
             \* lock and its waiters (SpecConc); <<>> where calls run one by one
    _lesson_cache,  \* ulf_parser._lesson_cache: path -> (mtime, LessonContent)
    now      \* the system clock that stamps st_mtime on the files written

storeVars == <<fs, last, steps>>
treeVars == <<cache, dirty>>
vars == <<fs, last, steps, cache, dirty, _lesson_path_cache, tasks,
         _lesson_cache, now>>

(***************************************************************************)
(* Strings and pathlib                                                     *)
(***************************************************************************)
SEP == "/"
PARDIR == <<"..">>
CURDIR == <<".">>

StartsWith(s, prefix) ==
    /\ Len(s) >= Len(prefix)
    /\ SubSeq(s, 1, Len(prefix)) = prefix

\* position of the first separator of s, or Len(s) + 1
RECURSIVE FirstSep(_, _)
FirstSep(s, i) ==
    IF i > Len(s) THEN i
    ELSE IF s[i] = SEP THEN i
    ELSE FirstSep(s, i + 1)

\* PurePosixPath parsing: split on "/", drop empty and "." segments, keep ".."
RECURSIVE ParseSegments(_)
ParseSegments(s) ==
    IF s = <<>> THEN <<>>
    ELSE LET k == FirstSep(s, 1)
             seg == SubSeq(s, 1, k - 1)
             rest == SubSeq(s, k + 1, Len(s))
         IN  IF seg = <<>> \/ seg = CURDIR
             THEN ParseSegments(rest)
             ELSE <<seg>> \o ParseSegments(rest)

IsAbsoluteStr(s) == Len(s) > 0 /\ s[1] = SEP

\* base / s : an absolute right operand replaces the left one
JoinPath(base, s) ==
    IF IsAbsoluteStr(s) THEN ParseSegments(s) ELSE base \o ParseSegments(s)

Parent(p) == IF p = <<>> THEN <<>> ELSE SubSeq(p, 1, Len(p) - 1)

\* Path.resolve() (non-strict) on a file system without symbolic links:
\* ".." removes the segment before it, and is dropped at "/"
RECURSIVE ResolveFrom(_, _)
ResolveFrom(acc, p) ==
    IF p = <<>> THEN acc
    ELSE IF Head(p) = PARDIR THEN ResolveFrom(Parent(acc), Tail(p))
    ELSE ResolveFrom(Append(acc, Head(p)), Tail(p))

Resolve(p) == ResolveFrom(<<>>, p)

\* str(path)
RECURSIVE StrOfSegs(_)
StrOfSegs(p) ==
    IF p = <<>> THEN <<>> ELSE <<SEP>> \o Head(p) \o StrOfSegs(Tail(p))

StrOf(p) == IF p = <<>> THEN <<SEP>> ELSE StrOfSegs(p)

\* Path('./content').resolve()
content_root == << <<"srv">>, <<"content">> >>

(***************************************************************************)
(* The operating system's view of the file system                          *)
(***************************************************************************)
DirNode == [kind |-> "directory", content |-> <<>>]
FileNode(c) == [kind |-> "file", content |-> c]

IsPrefix(a, b) == Len(a) <= Len(b) /\ SubSeq(b, 1, Len(a)) = a
Prefixes(p) == {SubSeq(p, 1, k) : k \in 0..Len(p)}

Exists(f, p) == p \in DOMAIN f
IsDirAt(f, p) == p \in DOMAIN f /\ f[p].kind = "directory"
IsFileAt(f, p) == p \in DOMAIN f /\ f[p].kind = "file"
ChildrenOf(f, p) == {q \in DOMAIN f : Len(q) = Len(p) + 1 /\ IsPrefix(p, q)}

\* Path.mkdir(parents=True, exist_ok=True): fails when p or an ancestor is a file
MkdirBlocked(f, p) == \E q \in Prefixes(p) : IsFileAt(f, q)
Mkdirs(f, p) ==
    [q \in DOMAIN f \cup Prefixes(p) |-> IF q \in DOMAIN f THEN f[q] ELSE DirNode]

\* open(p, 'w') + write: fails when p is a directory or its parent is no directory
OpenWBlocked(f, p) == IsDirAt(f, p) \/ ~IsDirAt(f, Parent(p))
\* the line feed and the carriage return
NL == "\n"
CR == "\r"

\* open(p, 'r') reads in text mode with universal newlines: "\r\n" and a lone
\* "\r" reach the reader as "\n"; open(p, 'w') on POSIX stores the text as given
RECURSIVE UniversalNewlines(_)
UniversalNewlines(s) ==
    IF s = <<>> THEN <<>>
    ELSE IF Head(s) # CR THEN <<Head(s)>> \o UniversalNewlines(Tail(s))
    ELSE IF Len(s) >= 2 /\ s[2] = NL THEN <<NL>> \o UniversalNewlines(Tail(Tail(s)))
    ELSE <<NL>> \o UniversalNewlines(Tail(s))

PutFile(f, p, c) ==
    [q \in DOMAIN f \cup {p} |-> IF q = p THEN FileNode(c) ELSE f[q]]

Unlink(f, p) == [q \in DOMAIN f \ {p} |-> f[q]]
Rmtree(f, p) == [q \in {r \in DOMAIN f : ~IsPrefix(p, r)} |-> f[q]]

\* The kernel's walk of an unresolved path: every segment but the last must be an
\* existing directory, ".." steps to the parent of the directory reached
RECURSIVE OsWalk(_, _, _)
OsWalk(f, cur, rest) ==
    IF rest = <<>> THEN [ok |-> TRUE, path |-> cur]
    ELSE IF ~IsDirAt(f, cur) THEN [ok |-> FALSE, path |-> cur]
    ELSE IF Head(rest) = PARDIR THEN OsWalk(f, Parent(cur), Tail(rest))
    ELSE IF Tail(rest) = <<>> THEN [ok |-> TRUE, path |-> Append(cur, Head(rest))]
    ELSE OsWalk(f, Append(cur, Head(rest)), Tail(rest))

\* os.rename(src, dst) of POSIX, dst already walked
RenameBlocked(f, src, dst) ==
    \/ ~Exists(f, src)
    \/ ~IsDirAt(f, Parent(dst))
    \/ (src # dst /\ IsPrefix(src, dst))                         \* EINVAL
    \/ (src # dst /\ IsDirAt(f, src) /\ IsFileAt(f, dst))        \* ENOTDIR
    \/ (src # dst /\ IsFileAt(f, src) /\ IsDirAt(f, dst))        \* EISDIR
    \/ (src # dst /\ IsDirAt(f, dst) /\ ChildrenOf(f, dst) # {}) \* ENOTEMPTY

Moved(src, dst, q) == dst \o SubSeq(q, Len(src) + 1, Len(q))

OsRename(f, src, dst) ==
    IF src = dst THEN f
    ELSE LET stay == {q \in DOMAIN f : ~IsPrefix(src, q) /\ q # dst}
             move == {q \in DOMAIN f : IsPrefix(src, q)}
         IN  [q \in stay \cup {Moved(src, dst, r) : r \in move} |->
                 IF q \in stay THEN f[q]
                 ELSE f[CHOOSE r \in move : Moved(src, dst, r) = q]]

(***************************************************************************)
(* FileSystemService.  Every operation is a function of the file system,   *)
(* its arguments and oserr (the operating system refuses the operation's   *)
(* last call: permission denied, disk full, ...), and yields the new file  *)
(* system, the outcome, the value returned and the OS calls made in order. *)
(***************************************************************************)
Call(c, p) == [call |-> c, path |-> p]
Out(f, r, v, cs) == [fs |-> f, result |-> r, value |-> v, calls |-> cs]
NoValue == <<>>

\* absolute_path = (self.content_root / relativePath).resolve()
AbsolutePath(relativePath) == Resolve(JoinPath(content_root, relativePath))

\* str(absolute_path).startswith(str(self.content_root))
SecurityCheck(path) == StartsWith(StrOf(path), StrOf(content_root))

read_file(f, relativePath, oserr) ==
    LET abs == AbsolutePath(relativePath)
        c1 == <<Call("security_check", abs)>>
        c2 == Append(c1, Call("exists", abs))
        c3 == Append(c2, Call("open_r", abs))
    IN  IF ~SecurityCheck(abs) THEN Out(f, "SecurityError", NoValue, c1)
        ELSE IF ~Exists(f, abs) THEN Out(f, "ContentFileNotFoundError", NoValue, c2)
        ELSE IF oserr \/ ~IsFileAt(f, abs)
             THEN Out(f, "FileSystemOperationError", NoValue, c3)
        ELSE Out(f, "ok", UniversalNewlines(f[abs].content), c3)

write_file(f, relativePath, content, oserr) ==
    LET abs == AbsolutePath(relativePath)
        c1 == <<Call("security_check", abs)>>
        c2 == Append(c1, Call("mkdir", Parent(abs)))
        c3 == Append(c2, Call("open_w", abs))
        f2 == Mkdirs(f, Parent(abs))
    IN  IF ~SecurityCheck(abs) THEN Out(f, "SecurityError", NoValue, c1)
        ELSE IF MkdirBlocked(f, Parent(abs))
             THEN Out(f, "FileSystemOperationError", NoValue, c2)
        ELSE IF oserr \/ OpenWBlocked(f2, abs)
             THEN Out(f2, "FileSystemOperationError", NoValue, c3)
        ELSE Out(PutFile(f2, abs, content), "ok", NoValue, c3)

\* create_directory with exist_ok=False: refuses a directory that exists
create_directory_exclusive(f, relativePath, oserr) ==
    LET abs == AbsolutePath(relativePath)
        c1 == <<Call("security_check", abs)>>
        c2 == Append(c1, Call("mkdir", abs))
    IN  IF ~SecurityCheck(abs) THEN Out(f, "SecurityError", NoValue, c1)
        ELSE IF oserr \/ MkdirBlocked(f, abs) \/ Exists(f, abs)
             THEN Out(f, "FileSystemOperationError", NoValue, c2)
        ELSE Out(Mkdirs(f, abs), "ok", NoValue, c2)

create_directory(f, relativePath, oserr) ==
    LET abs == AbsolutePath(relativePath)
        c1 == <<Call("security_check", abs)>>
        c2 == Append(c1, Call("mkdir", abs))
    IN  IF ~SecurityCheck(abs) THEN Out(f, "SecurityError", NoValue, c1)
        ELSE IF oserr \/ MkdirBlocked(f, abs)
             THEN Out(f, "FileSystemOperationError", NoValue, c2)
        ELSE Out(Mkdirs(f, abs), "ok", NoValue, c2)

delete_file(f, relativePath, oserr) ==
    LET abs == AbsolutePath(relativePath)
        c1 == <<Call("security_check", abs)>>
        c2 == Append(c1, Call("exists", abs))
        c3 == Append(c2, Call("is_file", abs))
        c4 == Append(c3, Call("unlink", abs))
    IN  IF ~SecurityCheck(abs) THEN Out(f, "SecurityError", NoValue, c1)
        ELSE IF ~Exists(f, abs) THEN Out(f, "ContentFileNotFoundError", NoValue, c2)
        ELSE IF ~IsFileAt(f, abs) THEN Out(f, "FileSystemOperationError", NoValue, c3)
        ELSE IF oserr THEN Out(f, "FileSystemOperationError", NoValue, c4)
        ELSE Out(Unlink(f, abs), "ok", NoValue, c4)

delete_directory(f, relativePath, oserr) ==
    LET abs == AbsolutePath(relativePath)
        c1 == <<Call("security_check", abs)>>
        c2 == Append(c1, Call("exists", abs))
        c3 == Append(c2, Call("is_dir", abs))
        c4 == Append(c3, Call("rmtree", abs))
    IN  IF ~SecurityCheck(abs) THEN Out(f, "SecurityError", NoValue, c1)
        ELSE IF ~Exists(f, abs) THEN Out(f, "ContentFileNotFoundError", NoValue, c2)
        ELSE IF ~IsDirAt(f, abs) THEN Out(f, "FileSystemOperationError", NoValue, c3)
        ELSE IF oserr THEN Out(f, "FileSystemOperationError", NoValue, c4)
        ELSE Out(Rmtree(f, abs), "ok", NoValue, c4)

\* new_absolute_path = absolute_path.parent / newName   (not resolved)
NewAbsolutePath(abs, newName) == JoinPath(Parent(abs), newName)

rename_item(f, relativePath, newName, oserr) ==
    LET abs == AbsolutePath(relativePath)
        new == NewAbsolutePath(abs, newName)
        w == OsWalk(f, <<>>, new)
        c1 == <<Call("security_check", abs)>>
        c2 == Append(c1, Call("exists", abs))
        c3 == Append(c2, Call("security_check", new))
        c4 == Append(c3, Call("rename", w.path))
    IN  IF ~SecurityCheck(abs) THEN Out(f, "SecurityError", NoValue, c1)
        ELSE IF ~Exists(f, abs) THEN Out(f, "ContentFileNotFoundError", NoValue, c2)
        ELSE IF ~SecurityCheck(new) THEN Out(f, "SecurityError", NoValue, c3)
        ELSE IF oserr \/ ~w.ok \/ RenameBlocked(f, abs, w.path)
             THEN Out(f, "FileSystemOperationError", NoValue, c4)
        ELSE Out(OsRename(f, abs, w.path), "ok", NoValue, c4)

path_exists(f, relativePath) ==
    LET abs == AbsolutePath(relativePath)
        c1 == <<Call("security_check", abs)>>
        c2 == Append(c1, Call("exists", abs))
    IN  IF ~SecurityCheck(abs) THEN Out(f, "SecurityError", NoValue, c1)
        ELSE Out(f, "ok", Exists(f, abs), c2)

\* str(item.relative_to(self.content_root)): the segments below the root joined by "/"
RECURSIVE JoinSegs(_)
JoinSegs(p) ==
    IF p = <<>> THEN <<>>
    ELSE IF Len(p) = 1 THEN Head(p)
    ELSE Head(p) \o <<SEP>> \o JoinSegs(Tail(p))

IsRelativeTo(p, base) == IsPrefix(base, p)
RelativeTo(p, base) == JoinSegs(SubSeq(p, Len(base) + 1, Len(p)))

\* absolute_path.iterdir(): the children of dir in the order the directory yields
\* them; ord (a sequence of names without repetition) is that order
RECURSIVE Iterdir(_, _, _)
Iterdir(f, dir, ord) ==
    IF ord = <<>> THEN <<>>
    ELSE IF Exists(f, Append(dir, Head(ord)))
         THEN <<Append(dir, Head(ord))>> \o Iterdir(f, dir, Tail(ord))
         ELSE Iterdir(f, dir, Tail(ord))

DirectoryScanResult(f, item) ==
    [name |-> item[Len(item)],
     type |-> IF IsDirAt(f, item) THEN "directory" ELSE "file",
     path |-> RelativeTo(item, content_root)]

scan_directory(f, relativePath, ord, oserr) ==
    LET abs == AbsolutePath(relativePath)
        items == Iterdir(f, abs, ord)
        c1 == <<Call("security_check", abs)>>
        c2 == Append(c1, Call("exists", abs))
        c3 == Append(c2, Call("is_dir", abs))
        c4 == Append(c3, Call("iterdir", abs))
    IN  IF ~SecurityCheck(abs) THEN Out(f, "SecurityError", NoValue, c1)
        ELSE IF ~Exists(f, abs) THEN Out(f, "ContentFileNotFoundError", NoValue, c2)
        ELSE IF ~IsDirAt(f, abs) THEN Out(f, "FileSystemOperationError", NoValue, c3)
        ELSE IF oserr \/ (items # <<>> /\ ~IsRelativeTo(abs, content_root))
             THEN Out(f, "FileSystemOperationError", NoValue, c4)
        ELSE Out(f, "ok", [i \in 1..Len(items) |-> DirectoryScanResult(f, items[i])], c4)

(***************************************************************************)
(* Text: str.split, str.strip, and the YAML documents of PyYAML            *)
(*                                                                         *)
(* In a text the token "---" is the only token that holds three dashes in  *)
(* a row, so the occurrences of the substring '---' are the occurrences of *)
(* that token.  "\n" is the only whitespace token of the texts that are    *)
(* parsed; "\r" occurs in contents handed to the FileSystemService.        *)
(***************************************************************************)
DASHES == "---"

\* index of the first occurrence of sep in s at or after i, or 0
RECURSIVE Find(_, _, _)
Find(s, sep, i) ==
    IF i + Len(sep) - 1 > Len(s) THEN 0
    ELSE IF SubSeq(s, i, i + Len(sep) - 1) = sep THEN i
    ELSE Find(s, sep, i + 1)

\* s.split(sep, maxsplit); maxsplit = -1 splits at every occurrence
RECURSIVE Split(_, _, _)
Split(s, sep, maxsplit) ==
    LET k == Find(s, sep, 1)
    IN  IF maxsplit = 0 \/ k = 0 THEN <<s>>
        ELSE <<SubSeq(s, 1, k - 1)>>
                 \o Split(SubSeq(s, k + Len(sep), Len(s)), sep, maxsplit - 1)

RECURSIVE LStrip(_)
LStrip(s) == IF s # <<>> /\ Head(s) = NL THEN LStrip(Tail(s)) ELSE s
RECURSIVE RStrip(_)
RStrip(s) ==
    IF s # <<>> /\ s[Len(s)] = NL THEN RStrip(SubSeq(s, 1, Len(s) - 1)) ELSE s
Strip(s) == LStrip(RStrip(s))

\* YAML values: PyYAML's str, int, None
StrVal(s) == [t |-> "str", v |-> s]
IntVal(s) == [t |-> "int", v |-> s]
NullVal == [t |-> "null", v |-> <<>>]
\* a loaded document: kind "null", "map", "seq", "scalar", or "error" (YAMLError)
YamlError == [kind |-> "error", map |-> <<>>, val |-> NullVal]
YamlNode(k, m) == [kind |-> k, map |-> m, val |-> NullVal]
YamlScalar(v) == [kind |-> "scalar", map |-> <<>>, val |-> v]

IntTokens == {"0", "1", "2024"}
\* the double-quoted escapes \xNN of a scalar: "\x2d\x2d\x2d" is '---'
Unescape(tok) == IF tok = "\\x2d\\x2d\\x2d" THEN DASHES ELSE tok

\* one scalar: plain, 'single quoted' or "double quoted"; ok = FALSE is a YAMLError
Scalar(toks) ==
    IF toks = <<>> \/ toks = <<"null">> THEN [ok |-> TRUE, val |-> NullVal]
    ELSE IF Len(toks) = 3 /\ toks[1] = "'" /\ toks[3] = "'"
         THEN [ok |-> TRUE, val |-> StrVal(<<toks[2]>>)]
    ELSE IF Len(toks) = 3 /\ toks[1] = "\"" /\ toks[3] = "\""
         THEN [ok |-> TRUE, val |-> StrVal(<<Unescape(toks[2])>>)]
    ELSE IF Len(toks) = 1 /\ toks[1] \notin {"'", "\"", "[", ":", "-", DASHES}
         THEN [ok |-> TRUE,
               val |-> IF toks[1] \in IntTokens THEN IntVal(toks) ELSE StrVal(toks)]
    ELSE [ok |-> FALSE, val |-> NullVal]

NonEmpty(parts) == SelectSeq(parts, LAMBDA x : x # <<>>)
IsMapLine(l) ==
    /\ Len(l) >= 2
    /\ l[2] = ":"
    /\ l[1] \notin {"'", "\"", "[", ":", "-", DASHES}
    /\ Scalar(SubSeq(l, 3, Len(l))).ok
IsSeqLine(l) == Len(l) >= 1 /\ l[1] = "-" /\ Scalar(Tail(l)).ok

\* a block mapping, line by line; a later duplicate of a key wins
RECURSIVE MapOfLines(_, _)
MapOfLines(ls, acc) ==
    IF ls = <<>> THEN acc
    ELSE LET l == Head(ls)
             v == Scalar(SubSeq(l, 3, Len(l))).val
         IN  MapOfLines(Tail(ls),
                 [k \in DOMAIN acc \cup {l[1]} |-> IF k = l[1] THEN v ELSE acc[k]])

\* yaml.safe_load(text): None, a mapping, a sequence, a scalar, or a YAMLError
yaml_safe_load(text) ==
    LET ls == NonEmpty(Split(text, <<NL>>, -1))
    IN  IF ls = <<>> THEN YamlNode("null", <<>>)
        ELSE IF ls = << <<"{}">> >> THEN YamlNode("map", <<>>)
        ELSE IF \A i \in 1..Len(ls) : IsMapLine(ls[i])
             THEN YamlNode("map", MapOfLines(ls, <<>>))
        ELSE IF \A i \in 1..Len(ls) : IsSeqLine(ls[i]) THEN YamlNode("seq", <<>>)
        ELSE IF Len(ls) = 1 /\ Scalar(ls[1]).ok THEN YamlScalar(Scalar(ls[1]).val)
        ELSE YamlError

(***************************************************************************)
(* ContentScannerService.  denied is the set of absolute paths on which    *)
(* the operating system refuses a call (permission denied), ord the order  *)
(* in which directories yield their entries during the call.               *)
(***************************************************************************)
COURSE_YML == <<"_course.yml">>
MODULE_YML == <<"_module.yml">>
LESSON_EXT == ".lesson"

\* ContentNode(type=..., name=..., path=...): children defaults to [], configPath to
\* None (the keyword config_path names no field of the model and is ignored)
ContentNode(type, name, path, children) ==
    [type |-> type, name |-> name, path |-> path, children |-> children,
     configPath |-> NoValue]

\* path.split('/')[-1]
LastSegment(path) ==
    LET parts == Split(path, <<SEP>>, -1) IN parts[Len(parts)]

\* name.endswith('.lesson') and name.replace('.lesson', '')
EndsWithLesson(name) == name # <<>> /\ name[Len(name)] = LESSON_EXT
RemoveLessonExt(name) == SelectSeq(name, LAMBDA t : t # LESSON_EXT)

HasFileNamed(items, name) ==
    \E i \in 1..Len(items) : items[i].type = "file" /\ items[i].name = name

\* the try block of _build_node: the config's 'title', or the path's last segment
\* when reading or parsing fails, the document has no .get, or 'title' is absent
ConfigTitle(f, path, config_path, denied) ==
    LET rd == read_file(f, config_path, AbsolutePath(config_path) \in denied)
        data == yaml_safe_load(rd.value)
    IN  IF rd.result # "ok" THEN StrVal(LastSegment(path))
        ELSE IF data.kind # "map" THEN StrVal(LastSegment(path))
        ELSE IF "title" \in DOMAIN data.map THEN data.map["title"]
        ELSE StrVal(LastSegment(path))

Raise(e) == [status |-> "raise", error |-> e, node |-> NoValue]
Pruned == [status |-> "none", error |-> "", node |-> NoValue]
Built(n) == [status |-> "node", error |-> "", node |-> n]

\* x bound once to the value of v in F(x)
With(v, F(_)) == CHOOSE y \in {F(x) : x \in {v}} : TRUE

ChildrenOut(st, e, children) == [status |-> st, error |-> e, children |-> children]

\* the classification of a scanned directory: "course", "module", or "none"
NodeTypeModuleFirst(items) ==
    IF HasFileNamed(items, MODULE_YML) THEN "module"
    ELSE IF HasFileNamed(items, COURSE_YML) THEN "course"
    ELSE "none"
NodeTypePruneNothing(items) ==
    IF HasFileNamed(items, COURSE_YML) THEN "course" ELSE "module"
NodeType(items) ==
    IF HasFileNamed(items, COURSE_YML) THEN "course"
    ELSE IF HasFileNamed(items, MODULE_YML) THEN "module"
    ELSE "none"

RECURSIVE _build_node(_, _, _, _)
RECURSIVE BuildChildren(_, _, _, _, _)

\* a children loop that puts each child in front of those found before it
RECURSIVE BuildChildrenReversed(_, _, _, _, _)
BuildChildrenReversed(f, items, i, ord, denied) ==
    IF i > Len(items) THEN ChildrenOut("ok", "", <<>>)
    ELSE IF items[i].type = "directory"
    THEN With(_build_node(f, items[i].path, ord, denied), LAMBDA sub :
            IF sub.status = "raise" THEN ChildrenOut("raise", sub.error, <<>>)
            ELSE With(BuildChildrenReversed(f, items, i + 1, ord, denied), LAMBDA rest :
                    IF rest.status = "raise" THEN rest
                    ELSE IF sub.status = "node"
                    THEN ChildrenOut("ok", "", rest.children \o <<sub.node>>)
                    ELSE rest))
    ELSE With(BuildChildrenReversed(f, items, i + 1, ord, denied), LAMBDA rest :
            IF rest.status = "raise" THEN rest
            ELSE IF EndsWithLesson(items[i].name)
            THEN ChildrenOut("ok", "",
                     rest.children \o
                         <<ContentNode("lesson", RemoveLessonExt(items[i].name),
                                       items[i].path, <<>>)>>)
            ELSE rest)

\* the "Add children" loop of _build_node over items[i..]
BuildChildren(f, items, i, ord, denied) ==
    IF i > Len(items) THEN ChildrenOut("ok", "", <<>>)
    ELSE IF items[i].type = "directory"
    THEN With(_build_node(f, items[i].path, ord, denied), LAMBDA sub :
            IF sub.status = "raise" THEN ChildrenOut("raise", sub.error, <<>>)
            ELSE With(BuildChildren(f, items, i + 1, ord, denied), LAMBDA rest :
                    IF rest.status = "raise" THEN rest
                    ELSE IF sub.status = "node"
                    THEN ChildrenOut("ok", "", <<sub.node>> \o rest.children)
                    ELSE rest))
    ELSE With(BuildChildren(f, items, i + 1, ord, denied), LAMBDA rest :
            IF rest.status = "raise" THEN rest
            ELSE IF EndsWithLesson(items[i].name)
            THEN ChildrenOut("ok", "",
                     <<ContentNode("lesson", RemoveLessonExt(items[i].name),
                                   items[i].path, <<>>)>> \o rest.children)
            ELSE rest)

\* the node of directory path once it is scanned: typed by its config file, named by
\* the config's title, with the children built from its items
NodeOf(f, path, items, ord, denied) ==
    With(NodeType(items), LAMBDA node_type :
        IF node_type = "none" THEN Pruned
        ELSE With(ConfigTitle(f, path,
                      path \o <<SEP>> \o
                          (IF node_type = "course" THEN COURSE_YML ELSE MODULE_YML),
                      denied), LAMBDA title :
                IF title.t # "str" THEN Raise("ValidationError")
                ELSE With(BuildChildren(f, items, 1, ord, denied), LAMBDA kids :
                        IF kids.status = "raise" THEN Raise(kids.error)
                        ELSE Built(ContentNode(node_type, title.v, path,
                                               kids.children)))))

_build_node(f, path, ord, denied) ==
    With(scan_directory(f, path, ord, AbsolutePath(path) \in denied), LAMBDA sc :
        IF sc.result # "ok" THEN Raise(sc.result)
        ELSE NodeOf(f, path, sc.value, ord, denied))

\* the loop of build_content_tree over the entries of 'courses'
RECURSIVE BuildRoots(_, _, _, _, _)
BuildRoots(f, items, i, ord, denied) ==
    IF i > Len(items) THEN ChildrenOut("ok", "", <<>>)
    ELSE IF items[i].type # "directory" THEN BuildRoots(f, items, i + 1, ord, denied)
    ELSE With(_build_node(f, items[i].path, ord, denied), LAMBDA sub :
            IF sub.status = "raise" THEN ChildrenOut("raise", sub.error, <<>>)
            ELSE With(BuildRoots(f, items, i + 1, ord, denied), LAMBDA rest :
                    IF rest.status = "raise" THEN rest
                    ELSE IF sub.status = "node"
                    THEN ChildrenOut("ok", "", <<sub.node>> \o rest.children)
                    ELSE rest))

\* self._cache: TTLCache(maxsize=1, ttl=3600), one slot under the key "content_tree"
EmptyCache == [full |-> FALSE, tree |-> <<>>]
CacheOf(tree) == [full |-> TRUE, tree |-> tree]

TreeOut(st, e, tree, c, hit) ==
    [status |-> st, error |-> e, tree |-> tree, cache |-> c, hit |-> hit]

COURSES == <<"courses">>

\* a build that degrades a failed scan of 'courses' to an empty tree and stores it
build_content_tree_degrades(f, c, ord, denied) ==
    IF c.full THEN TreeOut("ok", "", c.tree, c, TRUE)
    ELSE With(scan_directory(f, COURSES, ord, AbsolutePath(COURSES) \in denied),
              LAMBDA sc :
            IF sc.result # "ok" THEN TreeOut("ok", "", <<>>, CacheOf(<<>>), FALSE)
            ELSE With(BuildRoots(f, sc.value, 1, ord, denied), LAMBDA roots :
                    IF roots.status = "raise"
                    THEN TreeOut("raise", roots.error, <<>>, c, FALSE)
                    ELSE TreeOut("ok", "", roots.children, CacheOf(roots.children),
                                 FALSE)))

\* a lookup written `if cached_tree:`, which takes a cached empty list for a miss
build_content_tree_falsy(f, c, ord, denied) ==
    IF c.full /\ c.tree # <<>> THEN TreeOut("ok", "", c.tree, c, TRUE)
    ELSE With(scan_directory(f, COURSES, ord, AbsolutePath(COURSES) \in denied),
              LAMBDA sc :
            IF sc.result # "ok" THEN TreeOut("raise", sc.result, <<>>, c, FALSE)
            ELSE With(BuildRoots(f, sc.value, 1, ord, denied), LAMBDA roots :
                    IF roots.status = "raise"
                    THEN TreeOut("raise", roots.error, <<>>, c, FALSE)
                    ELSE TreeOut("ok", "", roots.children, CacheOf(roots.children),
                                 FALSE)))

\* build_content_tree under the lock: the cached tree, or a scan stored in the cache
build_content_tree(f, c, ord, denied) ==
    IF c.full THEN TreeOut("ok", "", c.tree, c, TRUE)
    ELSE With(scan_directory(f, COURSES, ord, AbsolutePath(COURSES) \in denied),
              LAMBDA sc :
            IF sc.result # "ok" THEN TreeOut("raise", sc.result, <<>>, c, FALSE)
            ELSE With(BuildRoots(f, sc.value, 1, ord, denied), LAMBDA roots :
                    IF roots.status = "raise"
                    THEN TreeOut("raise", roots.error, <<>>, c, FALSE)
                    ELSE TreeOut("ok", "", roots.children, CacheOf(roots.children),
                                 FALSE)))

\* self._cache.clear()
clear_cache_keeps(c) == c
clear_cache(c) == EmptyCache

\* str.lower() of the tokens that hold upper-case letters
LowerToken(t) ==
    CASE t = "C1" -> "c1"
      [] t = "Python 101" -> "python 101"
      [] t = "Basics" -> "basics"
      [] OTHER -> t
Lower(str) == [i \in 1..Len(str) |-> LowerToken(str[i])]

\* str.strip("/")
RECURSIVE StripSep(_)
StripSep(str) ==
    IF str # <<>> /\ Head(str) = SEP THEN StripSep(Tail(str))
    ELSE IF str # <<>> /\ str[Len(str)] = SEP THEN StripSep(SubSeq(str, 1, Len(str) - 1))
    ELSE str

\* gather_lessons(node): the lesson names below node, depth first in children order
RECURSIVE gather_lessons(_)
RECURSIVE GatherFrom(_, _)
GatherFrom(children, i) ==
    IF i > Len(children) THEN <<>>
    ELSE (IF children[i].type = "lesson"
          THEN <<children[i].name>>
          ELSE gather_lessons(children[i])) \o GatherFrom(children, i + 1)
gather_lessons_shallow(node) ==
    LET kids == SelectSeq(node.children, LAMBDA c : c.type = "lesson")
    IN  [i \in 1..Len(kids) |-> kids[i].name]
gather_lessons(node) == GatherFrom(node.children, 1)

\* a loop that leaves out the test of the node's type
RECURSIVE FirstMatchAnyType(_, _, _)
FirstMatchAnyType(tree, i, normalized_slug) ==
    IF i > Len(tree) THEN 0
    ELSE IF \/ Lower(LastSegment(StripSep(tree[i].path))) = normalized_slug
            \/ Lower(tree[i].name) = normalized_slug
         THEN i
    ELSE FirstMatchAnyType(tree, i + 1, normalized_slug)

\* the loop over the top-level nodes: the first course whose path slug or name matches
RECURSIVE FirstMatch(_, _, _)
FirstMatch(tree, i, normalized_slug) ==
    IF i > Len(tree) THEN 0
    ELSE IF /\ tree[i].type = "course"
            /\ \/ Lower(LastSegment(StripSep(tree[i].path))) = normalized_slug
               \/ Lower(tree[i].name) = normalized_slug
         THEN i
    ELSE FirstMatch(tree, i + 1, normalized_slug)

SlugsOut(st, e, slugs, c) == [status |-> st, error |-> e, slugs |-> slugs, cache |-> c]

get_course_lesson_slugs(f, c, course_slug, ord, denied) ==
    With(build_content_tree(f, c, ord, denied), LAMBDA b :
        IF b.status = "raise" THEN SlugsOut("raise", b.error, <<>>, b.cache)
        ELSE With(FirstMatch(b.tree, 1, Lower(course_slug)), LAMBDA k :
                IF k = 0 THEN SlugsOut("ok", "", <<>>, b.cache)
                ELSE SlugsOut("ok", "", gather_lessons(b.tree[k]), b.cache)))

(***************************************************************************)
(* ULFParserService: python-frontmatter, yaml.dump, parse and stringify    *)
(***************************************************************************)
\* FM_BOUNDARY (^-{3,}\s*$, MULTILINE): a line that holds dashes only
IsBoundaryAt(s, i) ==
    /\ s[i] = DASHES
    /\ i = 1 \/ s[i - 1] = NL
    /\ i = Len(s) \/ s[i + 1] = NL
RECURSIVE FirstBoundary(_, _)
FirstBoundary(s, i) ==
    IF i > Len(s) THEN 0
    ELSE IF IsBoundaryAt(s, i) THEN i
    ELSE FirstBoundary(s, i + 1)

Post(ok, metadata, content) == [ok |-> ok, metadata |-> metadata, content |-> content]

\* frontmatter.loads(text): the text is stripped; without a boundary line at its
\* start and a second one after it the whole text is the content; the block between
\* the two is loaded as YAML (a YAMLError propagates) and is the metadata when it
\* is a mapping
frontmatter_loads(text) ==
    LET t == Strip(text)
        k == FirstBoundary(t, 2)
        fm == yaml_safe_load(SubSeq(t, 2, k - 1))
    IN  IF t = <<>> \/ ~IsBoundaryAt(t, 1) \/ k = 0 THEN Post(TRUE, <<>>, t)
        ELSE IF fm.kind = "error" THEN Post(FALSE, <<>>, <<>>)
        ELSE Post(TRUE, IF fm.kind = "map" THEN fm.map ELSE <<>>,
                  Strip(SubSeq(t, k + 1, Len(t))))

\* bool(document): None, 0 and the empty mapping are false
Truthy(loaded) ==
    CASE loaded.kind = "null" -> FALSE
      [] loaded.kind = "map" -> DOMAIN loaded.map # {}
      [] loaded.kind = "scalar" ->
             loaded.val.t # "null" /\ loaded.val # IntVal(<<"0">>)
      [] OTHER -> TRUE

Parsed(doc) == [ok |-> TRUE, doc |-> doc]
ParsingError == [ok |-> FALSE, doc |-> <<>>]
Cell(config, content) == [config |-> config, content |-> content]

\* the loop of parse over the pairs cell_parts[i], cell_parts[i + 1]
RECURSIVE ParseCells(_, _)
ParseCells(cell_parts, i) ==
    IF i > Len(cell_parts) THEN Parsed(<<>>)
    ELSE With(yaml_safe_load(Strip(cell_parts[i])), LAMBDA loaded :
            IF loaded.kind = "error" THEN ParsingError
            ELSE IF Truthy(loaded) /\ loaded.kind # "map" THEN ParsingError
            ELSE With(ParseCells(cell_parts, i + 2), LAMBDA rest :
                    IF ~rest.ok THEN ParsingError
                    ELSE Parsed(<<Cell(IF Truthy(loaded) THEN loaded.map ELSE <<>>,
                                       Strip(cell_parts[i + 1]))>> \o rest.doc)))

\* ULFParserService.parse(text_content)
parse(text_content) ==
    With(frontmatter_loads(text_content), LAMBDA post :
        IF ~post.ok THEN ParsingError
        ELSE With(Split(post.content, <<DASHES>>, -1), LAMBDA cell_parts :
                IF Len(cell_parts) % 2 # 0 THEN ParsingError
                ELSE With(ParseCells(cell_parts, 1), LAMBDA cells :
                        IF ~cells.ok THEN ParsingError
                        ELSE Parsed([frontmatter |-> post.metadata,
                                     cells |-> cells.doc]))))

\* the keys of the modelled documents in the order yaml.dump sorts them
YamlKeys ==
    <<"course_slug", "description", "duration", "lesson_id", "level", "question_id",
      "sep", "slug", "title", "type">>

\* a str that would load as another type, or holds '---', is single-quoted
DumpScalar(v) ==
    CASE v.t = "null" -> <<"null">>
      [] v.t = "int" -> v.v
      [] OTHER -> IF v.v[1] \in IntTokens \cup {"null", DASHES}
                  THEN <<"'">> \o v.v \o <<"'">>
                  ELSE v.v

RECURSIVE DumpKeys(_, _)
DumpKeys(m, i) ==
    IF i > Len(YamlKeys) THEN <<>>
    ELSE (IF YamlKeys[i] \in DOMAIN m
          THEN <<YamlKeys[i], ":">> \o DumpScalar(m[YamlKeys[i]]) \o <<NL>>
          ELSE <<>>) \o DumpKeys(m, i + 1)

\* yaml.dump(data, default_flow_style=False) of a mapping
yaml_dump(m) == IF DOMAIN m = {} THEN <<"{}", NL>> ELSE DumpKeys(m, 1)

\* sep.join(parts)
RECURSIVE Join(_, _)
Join(parts, sep) ==
    IF parts = <<>> THEN <<>>
    ELSE IF Len(parts) = 1 THEN Head(parts)
    ELSE Head(parts) \o sep \o Join(Tail(parts), sep)

\* body_parts: each cell's dumped config, then its content
RECURSIVE BodyParts(_)
BodyParts(cells) ==
    IF cells = <<>> THEN <<>>
    ELSE <<Strip(yaml_dump(Head(cells).config)), Head(cells).content>>
             \o BodyParts(Tail(cells))

\* ULFParserService.stringify(lesson_model)
stringify(lesson_model) ==
    <<DASHES, NL>> \o Strip(yaml_dump(lesson_model.frontmatter))
        \o <<NL, DASHES, NL>> \o Join(BodyParts(lesson_model.cells), <<NL, DASHES, NL>>)

(***************************************************************************)
(* ulf_parser.py: the parser that serves lessons, and the pydantic models  *)
(* LessonCell and LessonContent it builds (schemas/lesson.py)              *)
(***************************************************************************)
Raised(exc, message) == [status |-> "raise", exc |-> exc, message |-> message, value |-> <<>>]
Returned(value) == [status |-> "ok", exc |-> "", message |-> "", value |-> value]
ULFParseError(message) == Raised("ULFParseError", message)

\* bool(value) and str(value) of a YAML value
TruthyVal(v) == v.t # "null" /\ v.v # <<>> /\ v # IntVal(<<"0">>)
StrOfVal(v) == IF v.t = "null" THEN <<"None">> ELSE v.v
\* mapping.get(key): None when the key is absent
Get(m, key) == IF key \in DOMAIN m THEN m[key] ELSE NullVal
\* a or b
OrElse(a, b) == IF TruthyVal(a) THEN a ELSE b

\* a split that takes the text before the first line --- as the front matter
\* whether or not the text begins with ---, and a text without that line as a
\* front matter without a body
_split_front_matter_lenient(raw_text) ==
    LET parts == Split(raw_text, <<NL, DASHES, NL>>, 1)
        first == IF parts[1] # <<>> /\ Head(parts[1]) = DASHES THEN Tail(parts[1])
                 ELSE parts[1]
    IN  Returned([front_matter |-> Strip(first),
                  body |-> IF Len(parts) = 2 THEN parts[2] ELSE <<>>])

\* _split_front_matter(raw_text)
_split_front_matter(raw_text) ==
    LET parts == Split(raw_text, <<NL, DASHES, NL>>, 1)
    IN  IF raw_text = <<>> \/ Head(raw_text) # DASHES
        THEN ULFParseError("must start with front matter")
        ELSE IF Len(parts) # 2
        THEN ULFParseError("must contain front matter and a body")
        ELSE Returned([front_matter |-> Strip(Tail(parts[1])), body |-> parts[2]])

\* _parse_yaml(raw, error_message): the mapping loaded from raw
_parse_yaml(raw, error_message) ==
    LET data == yaml_safe_load(raw)
    IN  IF data.kind = "error" THEN ULFParseError(error_message)
        ELSE IF ~Truthy(data) THEN Returned(<<>>)
        ELSE IF data.kind # "map" THEN ULFParseError(error_message)
        ELSE Returned(data.map)

\* slugs that do not match ^[a-zA-Z0-9_-]+$, strings over 50 characters
BadSlugTokens == {"my slug"}
LongTokens == {"<51 characters>"}

\* LessonCell(**kwargs): 'type' is required (1 to 50 characters), 'content' is
\* required, 'config' defaults to {}; keywords that name no field are ignored
LessonCell(kwargs) ==
    IF "type" \notin DOMAIN kwargs \/ "content" \notin DOMAIN kwargs
    THEN Raised("ValidationError", "Field required")
    ELSE IF kwargs["type"] = <<>> \/ kwargs["type"][1] \in LongTokens
    THEN Raised("ValidationError", "String length")
    ELSE Returned([type |-> kwargs["type"], content |-> kwargs["content"],
                   config |-> IF "config" \in DOMAIN kwargs THEN kwargs["config"]
                              ELSE <<>>])

\* meta.pop("type")
Pop(m, key) == [k \in DOMAIN m \ {key} |-> m[k]]

\* the loop of _parse_cells over the pairs parts[i], parts[i + 1]
RECURSIVE ParseCellPairs(_, _)
ParseCellPairs(parts, i) ==
    IF i > Len(parts) THEN Returned(<<>>)
    ELSE With(_parse_yaml(parts[i], "Cell metadata must be valid YAML mapping"),
              LAMBDA meta :
            IF meta.status = "raise" THEN meta
            ELSE IF "type" \notin DOMAIN meta.value
            THEN ULFParseError("Cell metadata must include a 'type' field")
            ELSE With(LessonCell([cell_type |-> StrOfVal(meta.value["type"]),
                                  content |-> RStrip(parts[i + 1]),
                                  metadata |-> Pop(meta.value, "type")]),
                      LAMBDA cell :
                    IF cell.status = "raise" THEN cell
                    ELSE With(ParseCellPairs(parts, i + 2), LAMBDA rest :
                            IF rest.status = "raise" THEN rest
                            ELSE Returned(<<cell.value>> \o rest.value))))

\* _parse_cells(body)
_parse_cells(body) ==
    LET parts == Split(Strip(body), <<NL, DASHES, NL>>, -1)
    IN  IF Strip(body) = <<>> THEN Returned(<<>>)
        ELSE IF Len(parts) % 2 # 0
        THEN ULFParseError("Each lesson cell must contain metadata and content")
        ELSE ParseCellPairs(parts, 1)

\* strings UUID() accepts
UuidTokens == {"aaaaaaaaaaaaaaaaaaaaaaaaaaaaaaaa"}

\* _coerce_optional_uuid(value)
_coerce_optional_uuid(value) ==
    IF value.t = "null" \/ value.v = <<>> THEN Returned(NullVal)
    ELSE IF StrOfVal(value)[1] \in UuidTokens THEN Returned(value)
    ELSE ULFParseError("lesson_id must be a valid UUID")

known_keys == {"slug", "lesson_slug", "title", "lesson_id", "id", "course_slug"}

\* LessonContent(slug=..., title=..., course_slug=..., lesson_id=..., metadata=...,
\* cells=...): the slug fields must match ^[a-zA-Z0-9_-]+$
LessonContent(slug, title, course_slug, lesson_id, metadata, cells) ==
    IF slug[1] \in BadSlugTokens \/ (course_slug # <<>> /\ course_slug[1] \in BadSlugTokens)
    THEN Raised("ValidationError", "Slug must contain only alphanumeric characters")
    ELSE Returned([slug |-> slug, title |-> title, course_slug |-> course_slug,
                   lesson_id |-> lesson_id, metadata |-> metadata, cells |-> cells])

\* parse_lesson_file_from_text once the front matter is loaded into metadata
LessonOf(metadata, body) ==
    LET slug == OrElse(Get(metadata, "slug"), Get(metadata, "lesson_slug"))
        title == Get(metadata, "title")
        lesson_uuid ==
            _coerce_optional_uuid(OrElse(Get(metadata, "lesson_id"), Get(metadata, "id")))
        course_slug == Get(metadata, "course_slug")
    IN  IF ~TruthyVal(slug) THEN ULFParseError("Lesson front matter must include 'slug'")
        ELSE IF ~TruthyVal(title)
        THEN ULFParseError("Lesson front matter must include 'title'")
        ELSE IF lesson_uuid.status = "raise" THEN lesson_uuid
        ELSE With(_parse_cells(body), LAMBDA cells :
                IF cells.status = "raise" THEN cells
                ELSE LessonContent(StrOfVal(slug), StrOfVal(title),
                         IF TruthyVal(course_slug) THEN StrOfVal(course_slug) ELSE <<>>,
                         lesson_uuid.value,
                         [k \in DOMAIN metadata \ known_keys |-> metadata[k]],
                         cells.value))

\* parse_lesson_file_from_text(raw_text)
parse_lesson_file_from_text(raw_text) ==
    With(_split_front_matter(raw_text), LAMBDA split :
        IF split.status = "raise" THEN split
        ELSE With(_parse_yaml(split.value.front_matter,
                              "Invalid front matter in lesson file"),
                  LAMBDA metadata :
                IF metadata.status = "raise" THEN metadata
                ELSE LessonOf(metadata.value, split.value.body)))


\* a file as the operating system keeps it: its content and st_mtime
StampedFile(c, t) == [kind |-> "file", content |-> c, mtime |-> t]
\* the file at path carries the time t of the write that just completed
Stamp(f, path, t) == [f EXCEPT ![path] = StampedFile(f[path].content, t)]

\* path.stat().st_mtime: the clock's value when the file was last written
Mtime(f, path) == IF "mtime" \in DOMAIN f[path] THEN f[path].mtime ELSE 0
\* the outcome of parse_lesson_file and the _lesson_cache it leaves
Memo(r, lc) == [result |-> r, lesson_cache |-> lc]

\* a lookup that returns the document cached for the path whatever the mtime
parse_lesson_file_by_path(f, lc, path) ==
    IF ~Exists(f, path) THEN Memo(Raised("FileNotFoundError", StrOf(path)), lc)
    ELSE IF path \in DOMAIN lc THEN Memo(Returned(lc[path].doc), lc)
    ELSE IF ~IsFileAt(f, path) THEN Memo(Raised("IsADirectoryError", StrOf(path)), lc)
    ELSE With(parse_lesson_file_from_text(UniversalNewlines(f[path].content)),
              LAMBDA result :
            IF result.status = "raise" THEN Memo(result, lc)
            ELSE Memo(result,
                      (path :> [mtime |-> Mtime(f, path), doc |-> result.value])
                          @@ lc))

\* parse_lesson_file(path): lc is _lesson_cache
parse_lesson_file(f, lc, path) ==
    IF ~Exists(f, path) THEN Memo(Raised("FileNotFoundError", StrOf(path)), lc)
    ELSE IF path \in DOMAIN lc /\ lc[path].mtime = Mtime(f, path)
    THEN Memo(Returned(lc[path].doc), lc)
    ELSE IF ~IsFileAt(f, path) THEN Memo(Raised("IsADirectoryError", StrOf(path)), lc)
    ELSE With(_split_front_matter(UniversalNewlines(f[path].content)), LAMBDA split :
            IF split.status = "raise" THEN Memo(split, lc)
            ELSE With(_parse_yaml(split.value.front_matter,
                                  "Invalid front matter in lesson file"),
                      LAMBDA metadata :
                    IF metadata.status = "raise" THEN Memo(metadata, lc)
                    ELSE With(LessonOf(metadata.value, split.value.body),
                              LAMBDA result :
                            IF result.status = "raise" THEN Memo(result, lc)
                            ELSE Memo(result,
                                      (path :> [mtime |-> Mtime(f, path),
                                                doc |-> result.value]) @@ lc))))

(***************************************************************************)
(* lessons.py: _find_lesson_file and the endpoint update_lesson_raw        *)
(***************************************************************************)
\* a chunk of more than 10 MB of text
BIG == "<11 MB of text>"

\* validate_content_size(content): the encoded size is within max_size_bytes
validate_content_size(content) == \A i \in 1..Len(content) : content[i] # BIG

\* root.glob(f"courses/*/{slug}.lesson") and root.glob(f"**/{slug}.lesson")
GlobInCourses(f, slug) ==
    { p \in DOMAIN f : /\ Len(p) = Len(content_root) + 3
                       /\ IsPrefix(Append(content_root, COURSES), p)
                       /\ p[Len(p)] = Append(slug, LESSON_EXT) }
GlobAnywhere(f, slug) ==
    { p \in DOMAIN f : /\ Len(p) > Len(content_root)
                       /\ IsPrefix(content_root, p)
                       /\ p[Len(p)] = Append(slug, LESSON_EXT) }

Found(path, c) == [ok |-> TRUE, path |-> path, lesson_path_cache |-> c]
FileNotFoundError(c) == [ok |-> FALSE, path |-> <<>>, lesson_path_cache |-> c]

\* _find_lesson_file(slug): its possible outcomes, one per match the glob may yield
\* first; c is _lesson_path_cache
_find_lesson_file(f, c, slug) ==
    IF slug \in DOMAIN c /\ Exists(f, c[slug]) THEN {Found(c[slug], c)}
    ELSE LET dropped == [k \in DOMAIN c \ {slug} |-> c[k]]
             matches == IF GlobInCourses(f, slug) # {}
                        THEN GlobInCourses(f, slug)
                        ELSE GlobAnywhere(f, slug)
         IN  IF ~Exists(f, content_root) \/ matches = {}
             THEN {FileNotFoundError(dropped)}
             ELSE { Found(p, [k \in DOMAIN dropped \cup {slug} |->
                                  IF k = slug THEN p ELSE dropped[k]]) :
                    p \in matches }

\* the response with the state the request leaves behind and the service calls made
Response(status, f, c, lpc, path, calls) ==
    [status |-> status, fs |-> f, cache |-> c, lesson_path_cache |-> lpc,
     path |-> path, calls |-> calls]

\* update_lesson_raw once the lesson file is looked up: validate, write, clear
WriteThenValidate(f, c, content, oserr, found) ==
    IF ~found.ok
    THEN Response(404, f, c, found.lesson_path_cache, <<>>, <<>>)
    ELSE With(write_file(f, RelativeTo(found.path, content_root), content, oserr),
              LAMBDA w :
            IF w.result # "ok"
            THEN Response(500, w.fs, c, found.lesson_path_cache, found.path,
                          <<"write_file">>)
            ELSE IF ~parse(content).ok
            THEN Response(400, w.fs, c, found.lesson_path_cache, found.path,
                          <<"write_file", "parse">>)
            ELSE Response(200, w.fs, clear_cache(c), <<>>, found.path,
                          <<"write_file", "parse", "clear_cache">>))
ValidateThenWrite(f, c, content, oserr, found) ==
    IF ~found.ok
    THEN Response(404, f, c, found.lesson_path_cache, <<>>, <<>>)
    ELSE IF ~parse(content).ok
    THEN Response(400, f, c, found.lesson_path_cache, found.path, <<"parse">>)
    ELSE With(write_file(f, RelativeTo(found.path, content_root), content, oserr),
              LAMBDA w :
            IF w.result # "ok"
            THEN Response(500, w.fs, c, found.lesson_path_cache, found.path,
                          <<"parse", "write_file">>)
            ELSE Response(200, w.fs, clear_cache(c), <<>>, found.path,
                          <<"parse", "write_file", "clear_cache">>))

\* PUT /{slug}/raw: the possible responses
update_lesson_raw(f, lpc, c, slug, content, oserr) ==
    IF ~validate_content_size(content)
    THEN {Response(413, f, c, lpc, <<>>, <<>>)}
    ELSE { ValidateThenWrite(f, c, content, oserr, found) :
               found \in _find_lesson_file(f, lpc, slug) }

\* the response of get_lesson_content with the caches the request leaves behind
LessonResponse(status, r, lpc, lc, path) ==
    [status |-> status, exc |-> r.exc, detail |-> r.message, value |-> r.value,
     lesson_path_cache |-> lpc, lesson_cache |-> lc, path |-> path]

\* get_lesson_content once the lesson file is looked up: FileNotFoundError gives 404,
\* ULFParseError 500 with its message; any other exception leaves the handler and
\* the server answers 500
ServeFound(f, lc, found) ==
    IF ~found.ok
    THEN LessonResponse(404, Raised("FileNotFoundError", "Lesson not found"),
                        found.lesson_path_cache, lc, <<>>)
    ELSE With(parse_lesson_file(f, lc, found.path), LAMBDA m :
            IF m.result.status = "ok"
            THEN LessonResponse(200, m.result, found.lesson_path_cache, m.lesson_cache,
                                found.path)
            ELSE IF m.result.exc = "FileNotFoundError"
            THEN LessonResponse(404, m.result, found.lesson_path_cache, m.lesson_cache,
                                found.path)
            ELSE LessonResponse(500, m.result, found.lesson_path_cache, m.lesson_cache,
                                found.path))

\* GET /{slug}: the possible responses
get_lesson_content(f, lpc, lc, slug) ==
    { ServeFound(f, lc, found) : found \in _find_lesson_file(f, lpc, slug) }

(***************************************************************************)
(* admin.py: the endpoints update_config_file, create_item and delete_item *)
(* cs_service is the ContentScannerService the request is given; c is its  *)
(* cache.  calls lists the service calls of the handler with their results *)
(***************************************************************************)
Did(call, result) == [call |-> call, result |-> result]
AdminResponse(status, f, c, calls) ==
    [status |-> status, fs |-> f, cache |-> c, calls |-> calls]

\* path.replace("\\", "/")
ReplaceBackslash(path) == [i \in 1..Len(path) |-> IF path[i] = "\\" THEN SEP ELSE path[i]]

\* validate_safe_path(path): the status of the HTTPException raised, or 0
validate_safe_path(path) ==
    IF path = <<>> THEN 400
    ELSE IF path[1] \in {SEP, "\\"} THEN 403
    ELSE IF \E i \in 1..Len(ParseSegments(ReplaceBackslash(path))) :
                ParseSegments(ReplaceBackslash(path))[i] = PARDIR
    THEN 403
    ELSE 0

\* update_config_file with the cache cleared before the write
update_config_file_clears_first(f, c, path, content, oserr) ==
    IF validate_safe_path(path) # 0 THEN AdminResponse(validate_safe_path(path), f, c, <<>>)
    ELSE With(write_file(f, path, content, oserr), LAMBDA w :
            AdminResponse(IF w.result = "SecurityError" THEN 403
                          ELSE IF w.result # "ok" THEN 500 ELSE 200,
                          w.fs, clear_cache(c),
                          <<Did("clear_cache", "ok"), Did("write_file", w.result)>>))

\* PUT /config-file
update_config_file(f, c, path, content, oserr) ==
    IF validate_safe_path(path) # 0 THEN AdminResponse(validate_safe_path(path), f, c, <<>>)
    ELSE With(write_file(f, path, content, oserr), LAMBDA w :
            IF w.result = "SecurityError"
            THEN AdminResponse(403, w.fs, c, <<Did("write_file", w.result)>>)
            ELSE IF w.result # "ok"
            THEN AdminResponse(500, w.fs, c, <<Did("write_file", w.result)>>)
            ELSE AdminResponse(200, w.fs, clear_cache(c),
                               <<Did("write_file", "ok"), Did("clear_cache", "ok")>>))

\* CreateCourseRequest(**request_body), CreateModuleRequest, CreateLessonRequest:
\* extra keys are forbidden, title and slugs are non-empty, slugs match
\* ^[a-zA-Z0-9_-]+$
ValidRequest(item_type, request_body) ==
    /\ DOMAIN request_body = (IF item_type = "course" THEN {"title", "slug"}
                              ELSE {"title", "slug", "parent_slug"})
    /\ \A k \in DOMAIN request_body : request_body[k] # <<>>
    /\ \A k \in DOMAIN request_body \ {"title"} : request_body[k][1] \notin BadSlugTokens

\* create_item for a course or a module: the directory, then its config file;
\* refused is the number of the Store call the operating system refuses, or 0
CreateConfigured(f, c, path, config_name, title, refused) ==
    With(create_directory(f, path, refused = 1), LAMBDA cd :
        IF cd.result # "ok"
        THEN AdminResponse(500, cd.fs, c, <<Did("create_directory", cd.result)>>)
        ELSE With(write_file(cd.fs, path \o <<SEP>> \o config_name,
                             <<"title", ":">> \o title \o <<NL>>, refused = 2),
                  LAMBDA w :
                IF w.result # "ok"
                THEN AdminResponse(500, w.fs, c, <<Did("create_directory", "ok"),
                                                   Did("write_file", w.result)>>)
                ELSE AdminResponse(201, w.fs, clear_cache(c),
                                   <<Did("create_directory", "ok"),
                                     Did("write_file", "ok"),
                                     Did("clear_cache", "ok")>>)))

\* the loops of create_item over the tree: the first module child of a course whose
\* name is parent_slug, with the name of that course
ParentModules(tree, parent_slug) ==
    { pos \in { <<i, j>> : i \in 1..Len(tree), j \in 1..3 } :
          /\ tree[pos[1]].type = "course"
          /\ pos[2] <= Len(tree[pos[1]].children)
          /\ tree[pos[1]].children[pos[2]].type = "module"
          /\ tree[pos[1]].children[pos[2]].name = parent_slug }
FirstParentModule(tree, parent_slug) ==
    CHOOSE pos \in ParentModules(tree, parent_slug) :
        \A q \in ParentModules(tree, parent_slug) :
            pos[1] < q[1] \/ (pos[1] = q[1] /\ pos[2] <= q[2])

\* the text create_item writes for a new lesson
NewLessonText(title, slug, course_slug, lesson_id) ==
    <<DASHES, NL>>
        \o Strip(yaml_dump([k \in {"title", "slug", "course_slug", "lesson_id", "duration"} |->
                     CASE k = "title" -> StrVal(title)
                       [] k = "slug" -> StrVal(slug)
                       [] k = "course_slug" -> StrVal(course_slug)
                       [] k = "lesson_id" -> StrVal(lesson_id)
                       [] OTHER -> StrVal(<<"10m">>)]))
        \o <<NL, DASHES, NL>>
        \o Join(<<Strip(yaml_dump([k \in {"type"} |-> StrVal(<<"markdown">>)])),
                  <<"# ">> \o title \o <<NL, NL, "Lesson content goes here.">>>>,
                <<NL, DASHES, NL>>)

\* create_item for a lesson: the tree, the parent module, the lesson file; the
\* Store calls that can be refused are the scan of 'courses' and the write
CreateLesson(f, c, request, lesson_id, ord, refused) ==
    With(build_content_tree(f, c, ord,
                            IF refused = 1 THEN {AbsolutePath(COURSES)} ELSE {}),
         LAMBDA b :
        IF b.status = "raise"
        THEN AdminResponse(500, f, b.cache, <<Did("build_content_tree", b.error)>>)
        ELSE IF ParentModules(b.tree, request["parent_slug"]) = {}
        THEN AdminResponse(404, f, b.cache, <<Did("build_content_tree", "ok")>>)
        ELSE With(FirstParentModule(b.tree, request["parent_slug"]), LAMBDA pos :
             With(write_file(f, b.tree[pos[1]].children[pos[2]].path \o <<SEP>>
                                    \o request["slug"] \o <<LESSON_EXT>>,
                             NewLessonText(request["title"], request["slug"],
                                           b.tree[pos[1]].name, lesson_id),
                             refused = 2), LAMBDA w :
                IF w.result # "ok"
                THEN AdminResponse(500, w.fs, b.cache,
                                   <<Did("build_content_tree", "ok"),
                                     Did("write_file", w.result)>>)
                ELSE AdminResponse(201, w.fs, clear_cache(b.cache),
                                   <<Did("build_content_tree", "ok"),
                                     Did("write_file", "ok"),
                                     Did("clear_cache", "ok")>>))))

\* POST /create/{item_type}
create_item(f, c, item_type, request_body, lesson_id, ord, refused) ==
    IF ~ValidRequest(item_type, request_body) THEN AdminResponse(422, f, c, <<>>)
    ELSE IF item_type = "course"
    THEN CreateConfigured(f, c, COURSES \o <<SEP>> \o request_body["slug"],
                          COURSE_YML, request_body["title"], refused)
    ELSE IF item_type = "module"
    THEN CreateConfigured(f, c, COURSES \o <<SEP>> \o request_body["parent_slug"]
                                    \o <<SEP>> \o request_body["slug"],
                          MODULE_YML, request_body["title"], refused)
    ELSE CreateLesson(f, c, request_body, lesson_id, ord, refused)

\* bool(path_obj.suffix) or path_obj.name.endswith(".lesson"): the final segment
\* ends in ".lesson" or is one of the tokens that hold an extension
HasSuffix(path) ==
    LET name == LastSegment(ReplaceBackslash(path))
    IN  /\ name # <<>>
        /\ \/ name[Len(name)] = LESSON_EXT
           \/ name[Len(name)] \in {COURSE_YML[1], MODULE_YML[1]}

\* DELETE /item
delete_item(f, c, path, oserr) ==
    IF validate_safe_path(path) # 0 THEN AdminResponse(validate_safe_path(path), f, c, <<>>)
    ELSE With(path_exists(f, path), LAMBDA ex :
        IF ex.result = "SecurityError"
        THEN AdminResponse(403, f, c, <<Did("path_exists", ex.result)>>)
        ELSE IF ~ex.value THEN AdminResponse(404, f, c, <<Did("path_exists", "ok")>>)
        ELSE With(IF HasSuffix(path) THEN delete_file(f, path, oserr)
                  ELSE delete_directory(f, path, oserr), LAMBDA d :
             With(IF HasSuffix(path) THEN "delete_file" ELSE "delete_directory",
                  LAMBDA name :
                IF d.result = "ContentFileNotFoundError"
                THEN AdminResponse(404, d.fs, c, <<Did("path_exists", "ok"),
                                                   Did(name, d.result)>>)
                ELSE IF d.result # "ok"
                THEN AdminResponse(500, d.fs, c, <<Did("path_exists", "ok"),
                                                   Did(name, d.result)>>)
                ELSE AdminResponse(204, d.fs, clear_cache(c),
                                   <<Did("path_exists", "ok"), Did(name, "ok"),
                                     Did("clear_cache", "ok")>>))))

(***************************************************************************)
(* Specification SpecStore: arbitrary callers of the FileSystemService     *)
(***************************************************************************)
MaxOps == 2

\* relativePath arguments: "a/f", "a", "b/g", "", "a/../b", "\x",
\* "../content2/x", "../content2", "/etc"
StorePaths ==
    { <<"a", "/", "f">>, <<"a">>, <<"b", "/", "g">>, <<>>,
      <<"a", "/", "..", "/", "b">>, <<"\\", "x">>,
      <<"..", "/", "content", "2", "/", "x">>, <<"..", "/", "content", "2">>,
      <<"/", "etc">> }

\* newName arguments: "g", "../h", "/etc/x"
StoreNewNames ==
    { <<"g">>, <<"..", "/", "h">>, <<"/", "etc", "/", "x">> }

\* contents: "c1", and two lines that end in "\r\n"
StoreContents == { <<"c1">>, <<"l1", CR, NL, "l2", CR, NL>> }

\* directory iteration orders
StoreNames ==
    << <<"srv">>, <<"content">>, <<"content", "2">>, <<"secret">>, <<"etc">>,
       <<"a">>, <<"b">>, <<"f">>, <<"g">>, <<"h">>, <<"x">>, <<"\\", "x">> >>
Reverse(q) == [i \in 1..Len(q) |-> q[Len(q) + 1 - i]]
StoreOrders == {StoreNames, Reverse(StoreNames)}

\* /srv/content is the root; /srv/content2 and /srv/secret lie beside it
StoreInitFs ==
    ( << >> :> DirNode ) @@
    ( << <<"srv">> >> :> DirNode ) @@
    ( content_root :> DirNode ) @@
    ( Append(content_root, <<"a">>) :> DirNode ) @@
    ( content_root \o << <<"a">>, <<"f">> >> :> FileNode(<<"c0">>) ) @@
    ( << <<"srv">>, <<"secret">> >> :> FileNode(<<"s0">>) ) @@
    ( << <<"srv">>, <<"content", "2">> >> :> DirNode ) @@
    ( << <<"srv">>, <<"content", "2">>, <<"x">> >> :> FileNode(<<"s1">>) )

NoCall ==
    [op |-> "none", path |-> <<>>, newName |-> <<>>, content |-> <<>>,
     result |-> "ok", value |-> NoValue, calls |-> <<>>, before |-> StoreInitFs]

InitStore ==
    /\ fs = StoreInitFs
    /\ last = NoCall
    /\ steps = 0
    /\ cache = EmptyCache
    /\ dirty = FALSE
    /\ _lesson_path_cache = <<>>
    /\ tasks = <<>>
    /\ _lesson_cache = <<>>
    /\ now = 0

\* one Store call: the file system becomes the call's, last records the call
Record(op, path, newName, content, out) ==
    /\ steps < MaxOps
    /\ steps' = steps + 1
    /\ fs' = out.fs
    /\ last' = [op |-> op, path |-> path, newName |-> newName, content |-> content,
                result |-> out.result, value |-> out.value, calls |-> out.calls,
                before |-> fs]
    /\ UNCHANGED <<treeVars, _lesson_path_cache, _lesson_cache, now, tasks>>

ReadFile ==
    \E p \in StorePaths, e \in BOOLEAN :
        Record("read_file", p, <<>>, <<>>, read_file(fs, p, e))

WriteFile ==
    \E p \in StorePaths, c \in StoreContents, e \in BOOLEAN :
        Record("write_file", p, <<>>, c, write_file(fs, p, c, e))

CreateDirectory ==
    \E p \in StorePaths, e \in BOOLEAN :
        Record("create_directory", p, <<>>, <<>>, create_directory(fs, p, e))

DeleteFile ==
    \E p \in StorePaths, e \in BOOLEAN :
        Record("delete_file", p, <<>>, <<>>, delete_file(fs, p, e))

DeleteDirectory ==
    \E p \in StorePaths, e \in BOOLEAN :
        Record("delete_directory", p, <<>>, <<>>, delete_directory(fs, p, e))

RenameItem ==
    \E p \in StorePaths, n \in StoreNewNames, e \in BOOLEAN :
        Record("rename_item", p, n, <<>>, rename_item(fs, p, n, e))

PathExists ==
    \E p \in StorePaths :
        Record("path_exists", p, <<>>, <<>>, path_exists(fs, p))

ScanDirectory ==
    \E p \in StorePaths, o \in StoreOrders, e \in BOOLEAN :
        Record("scan_directory", p, <<>>, <<>>, scan_directory(fs, p, o, e))

NextStore ==
    \/ ReadFile
    \/ WriteFile
    \/ CreateDirectory
    \/ DeleteFile
    \/ DeleteDirectory
    \/ RenameItem
    \/ PathExists
    \/ ScanDirectory

SpecStore == InitStore /\ [][NextStore]_vars

(***************************************************************************)
(* Specification SpecTree: callers of one ContentScannerService instance   *)
(* and of the Store beneath it, one call at a time                         *)
(***************************************************************************)
MaxWrites == 2

LessonFile(name) == <<name, LESSON_EXT>>
CoursesDir == Append(content_root, <<"courses">>)
Under(dir, names) == dir \o names

\* courses/c1 (course): a.lesson, m1 (module: b.lesson), c.lesson
\* courses/x (no config file): z.lesson, m2 (module: y.lesson)
TreeInitFs ==
    ( << >> :> DirNode ) @@
    ( << <<"srv">> >> :> DirNode ) @@
    ( content_root :> DirNode ) @@
    ( CoursesDir :> DirNode ) @@
    ( Under(CoursesDir, << <<"c1">> >>) :> DirNode ) @@
    ( Under(CoursesDir, << <<"c1">>, COURSE_YML >>) :>
          FileNode(<<"title", ":", "Python 101", NL>>) ) @@
    ( Under(CoursesDir, << <<"c1">>, LessonFile("a") >>) :> FileNode(<<>>) ) @@
    ( Under(CoursesDir, << <<"c1">>, <<"m1">> >>) :> DirNode ) @@
    ( Under(CoursesDir, << <<"c1">>, <<"m1">>, MODULE_YML >>) :>
          FileNode(<<"title", ":", "Basics", NL>>) ) @@
    ( Under(CoursesDir, << <<"c1">>, <<"m1">>, LessonFile("b") >>) :> FileNode(<<>>) ) @@
    ( Under(CoursesDir, << <<"c1">>, LessonFile("c") >>) :> FileNode(<<>>) ) @@
    ( Under(CoursesDir, << <<"x">> >>) :> DirNode ) @@
    ( Under(CoursesDir, << <<"x">>, LessonFile("z") >>) :> FileNode(<<>>) ) @@
    ( Under(CoursesDir, << <<"x">>, <<"m2">> >>) :> DirNode ) @@
    ( Under(CoursesDir, << <<"x">>, <<"m2">>, MODULE_YML >>) :>
          FileNode(<<"title", ":", "Hidden", NL>>) ) @@
    ( Under(CoursesDir, << <<"x">>, <<"m2">>, LessonFile("y") >>) :> FileNode(<<>>) )

\* relative path strings
C1_COURSE_YML == <<"courses", "/", "c1", "/", "_course.yml">>
C1_D_LESSON == <<"courses", "/", "c1", "/", "d", ".lesson">>

\* config file texts: a title, no title, a sequence, empty, invalid YAML,
\* a null title, a numeric title
ConfigTexts ==
    { <<"title", ":", "Intro", NL>>,
      <<"description", ":", "text", NL>>,
      <<"-", "item", NL>>,
      <<>>,
      <<"title", ":", "[", NL>>,
      <<"title", ":", NL>>,
      <<"title", ":", "2024", NL>> }

\* the Store mutations of the callers (admin endpoints, editors, deployments)
Mutation(op, path, content) == [op |-> op, path |-> path, content |-> content]
TreeMutations ==
    { Mutation("write_file", C1_COURSE_YML, <<"title", ":", "Intro", NL>>),
      Mutation("write_file", C1_D_LESSON, <<>>),
      Mutation("delete_file", C1_COURSE_YML, <<>>),
      Mutation("delete_directory", COURSES, <<>>) }

ApplyMutation(f, m) ==
    CASE m.op = "write_file" -> write_file(f, m.path, m.content, FALSE)
      [] m.op = "delete_file" -> delete_file(f, m.path, FALSE)
      [] m.op = "delete_directory" -> delete_directory(f, m.path, FALSE)

TreeNames ==
    << COURSE_YML, LessonFile("a"), <<"m1">>, MODULE_YML, LessonFile("b"),
       LessonFile("c"), LessonFile("d"), <<"c1">>, <<"x">>, LessonFile("z"),
       <<"m2">>, LessonFile("y"), <<"courses">>, <<"e", LESSON_EXT, LESSON_EXT>> >>
TreeOrders == {TreeNames, Reverse(TreeNames)}

\* what the operating system refuses during one call: nothing, or the root scan
TreeDenied == { {}, {CoursesDir} }

CourseSlugs == { <<"c1">>, <<"missing-course">> }

NoTreeCall ==
    [op |-> "none", arg |-> <<>>, status |-> "ok", error |-> "", value |-> <<>>,
     hit |-> FALSE, ord |-> <<>>, denied |-> {}]

InitTree ==
    /\ fs = TreeInitFs
    /\ last = NoTreeCall
    /\ steps = 0
    /\ cache = EmptyCache
    /\ dirty = FALSE
    /\ _lesson_path_cache = <<>>
    /\ tasks = <<>>
    /\ _lesson_cache = <<>>
    /\ now = 0

\* await cs_service.build_content_tree()
Build ==
    \E o \in TreeOrders, d \in TreeDenied :
        \E b \in {build_content_tree(fs, cache, o, d)} :
            /\ cache' = b.cache
            /\ last' = [op |-> "build", arg |-> <<>>, status |-> b.status,
                        error |-> b.error, value |-> b.tree, hit |-> b.hit,
                        ord |-> o, denied |-> d]
            /\ UNCHANGED <<fs, steps, dirty, _lesson_path_cache, _lesson_cache, now, tasks>>

\* await cs_service.get_course_lesson_slugs(course_slug)
GetSlugs ==
    \E slug \in CourseSlugs, o \in TreeOrders, d \in TreeDenied :
        \E g \in {get_course_lesson_slugs(fs, cache, slug, o, d)} :
            /\ cache' = g.cache
            /\ last' = [op |-> "slugs", arg |-> slug, status |-> g.status,
                        error |-> g.error, value |-> g.slugs, hit |-> cache.full,
                        ord |-> o, denied |-> d]
            /\ UNCHANGED <<fs, steps, dirty, _lesson_path_cache, _lesson_cache, now, tasks>>

\* cs_service.clear_cache()
ClearCache ==
    /\ cache' = clear_cache(cache)
    /\ dirty' = FALSE
    /\ last' = [NoTreeCall EXCEPT !.op = "clear_cache"]
    /\ UNCHANGED <<fs, steps, _lesson_path_cache, _lesson_cache, now, tasks>>

\* 3600 s pass after the slot was filled: TTLCache drops the entry
Expire ==
    /\ cache.full
    /\ cache' = EmptyCache
    /\ last' = [NoTreeCall EXCEPT !.op = "expire"]
    /\ UNCHANGED <<fs, steps, dirty, _lesson_path_cache, _lesson_cache, now, tasks>>

\* a caller changes the content through the Store
Mutate ==
    \E m \in TreeMutations :
        \E out \in {ApplyMutation(fs, m)} :
            /\ steps < MaxWrites
            /\ out.result = "ok"
            /\ out.fs # fs
            /\ fs' = out.fs
            /\ steps' = steps + 1
            /\ dirty' = TRUE
            /\ last' = [NoTreeCall EXCEPT !.op = m.op, !.arg = m.path]
            /\ UNCHANGED <<cache, _lesson_path_cache, _lesson_cache, now, tasks>>

NextTree ==
    \/ Build
    \/ GetSlugs
    \/ ClearCache
    \/ Expire
    \/ Mutate

SpecTree == InitTree /\ [][NextTree]_vars

(***************************************************************************)
(* Specification SpecScan: build_content_tree and get_course_lesson_slugs  *)
(* applied once, with an empty cache, to each content layout of a family   *)
(***************************************************************************)
Opt(present, path, node) == IF present THEN (path :> node) ELSE <<>>

\* the layout of TreeInitFs with: c1's _course.yml absent (cfg = {}) or holding the
\* text in cfg; c1/_module.yml, c1/m1/_module.yml, x/_course.yml present or not
ScanFs(cfg, c1mod, m1cfg, xcfg) ==
    LET c1 == Under(CoursesDir, << <<"c1">> >>)
        m1 == Under(c1, << <<"m1">> >>)
        x == Under(CoursesDir, << <<"x">> >>)
        m2 == Under(x, << <<"m2">> >>)
    IN  ( << >> :> DirNode ) @@
        ( << <<"srv">> >> :> DirNode ) @@
        ( content_root :> DirNode ) @@
        ( CoursesDir :> DirNode ) @@
        ( c1 :> DirNode ) @@
        Opt(cfg # {}, Append(c1, COURSE_YML), FileNode(CHOOSE t \in cfg : TRUE)) @@
        Opt(c1mod, Append(c1, MODULE_YML), FileNode(<<"title", ":", "Basics", NL>>)) @@
        ( Append(c1, LessonFile("a")) :> FileNode(<<>>) ) @@
        ( m1 :> DirNode ) @@
        Opt(m1cfg, Append(m1, MODULE_YML), FileNode(<<"title", ":", "Basics", NL>>)) @@
        ( Append(m1, LessonFile("b")) :> FileNode(<<>>) ) @@
        ( Append(c1, LessonFile("c")) :> FileNode(<<>>) ) @@
        ( x :> DirNode ) @@
        Opt(xcfg, Append(x, COURSE_YML), FileNode(<<"title", ":", "C1", NL>>)) @@
        ( Append(x, LessonFile("z")) :> FileNode(<<>>) ) @@
        ( m2 :> DirNode ) @@
        ( Append(m2, MODULE_YML) :> FileNode(<<"title", ":", "Hidden", NL>>) ) @@
        ( Append(m2, LessonFile("y")) :> FileNode(<<>>) )

\* content roots without a usable 'courses' directory: none, or a file of that name
NoCoursesFs ==
    ( << >> :> DirNode ) @@ ( << <<"srv">> >> :> DirNode ) @@ ( content_root :> DirNode )
CoursesIsFileFs == NoCoursesFs @@ ( CoursesDir :> FileNode(<<>>) )

\* course c1 holding the directory m1 with a _course.yml of its own, beside a
\* _module.yml (m1cfg) or alone
NestedCourseFs(m1cfg) ==
    ( Under(CoursesDir, << <<"c1">>, <<"m1">>, COURSE_YML >>) :>
          FileNode(<<"title", ":", "Intro", NL>>) ) @@
    ScanFs({<<"title", ":", "Python 101", NL>>}, FALSE, m1cfg, FALSE)

\* course c1 holding also the file e.lesson.lesson
DoubleExtFs ==
    ( Under(CoursesDir, << <<"c1">>, <<"e", LESSON_EXT, LESSON_EXT>> >>) :>
          FileNode(<<>>) ) @@
    ScanFs({<<"title", ":", "Python 101", NL>>}, FALSE, TRUE, FALSE)

ScanLayouts ==
    { ScanFs(cfg, c1mod, m1cfg, xcfg) :
          cfg \in {{}} \cup {{t} : t \in ConfigTexts},
          c1mod \in BOOLEAN, m1cfg \in BOOLEAN, xcfg \in BOOLEAN }
    \cup {NoCoursesFs, CoursesIsFileFs}
    \cup {NestedCourseFs(m1cfg) : m1cfg \in BOOLEAN}
    \cup {DoubleExtFs}

\* what the operating system refuses during the call: nothing, the root scan,
\* the read of c1's config file, the scan of c1/m1
ScanDenied ==
    { {},
      {CoursesDir},
      {Under(CoursesDir, << <<"c1">>, COURSE_YML >>)},
      {Under(CoursesDir, << <<"c1">>, <<"m1">> >>)} }

ScanSlugs == { <<"c1">>, <<"C1">>, <<"x">>, <<"missing-course">> }

InitScan ==
    /\ fs \in ScanLayouts
    /\ last = NoTreeCall
    /\ steps = 0
    /\ cache = EmptyCache
    /\ dirty = FALSE
    /\ _lesson_path_cache = <<>>
    /\ tasks = <<>>
    /\ _lesson_cache = <<>>
    /\ now = 0

ScanBuild ==
    \E o \in TreeOrders, d \in ScanDenied :
        \E b \in {build_content_tree(fs, cache, o, d)} :
            /\ last.op = "none"
            /\ cache' = b.cache
            /\ last' = [op |-> "build", arg |-> <<>>, status |-> b.status,
                        error |-> b.error, value |-> b.tree, hit |-> b.hit,
                        ord |-> o, denied |-> d]
            /\ UNCHANGED <<fs, steps, dirty, _lesson_path_cache, _lesson_cache, now, tasks>>

ScanGetSlugs ==
    \E slug \in ScanSlugs, o \in TreeOrders, d \in ScanDenied :
        \E g \in {get_course_lesson_slugs(fs, cache, slug, o, d)} :
            /\ last.op = "none"
            /\ cache' = g.cache
            /\ last' = [op |-> "slugs", arg |-> slug, status |-> g.status,
                        error |-> g.error, value |-> g.slugs, hit |-> cache.full,
                        ord |-> o, denied |-> d]
            /\ UNCHANGED <<fs, steps, dirty, _lesson_path_cache, _lesson_cache, now, tasks>>

NextScan ==
    \/ ScanBuild
    \/ ScanGetSlugs

SpecScan == InitScan /\ [][NextScan]_vars

(***************************************************************************)
(* Specification SpecCodec: a text of a bounded family is parsed, the      *)
(* parsed document is stringified, and the result is parsed again          *)
(***************************************************************************)
MaxCells == 2

\* front-matter blocks: keys out of sorted order; a quoted numeral, an unrecognised
\* key and an integer; none; invalid YAML; a sequence instead of a mapping
FrontMatters ==
    { <<DASHES, NL, "title", ":", "T1", NL, "slug", ":", "s1", NL, DASHES, NL>>,
      <<DASHES, NL, "slug", ":", "s1", NL, "title", ":", "'", "2024", "'", NL,
        "level", ":", "1", NL, DASHES, NL>>,
      <<>>,
      <<DASHES, NL, "title", ":", "[", NL, DASHES, NL>>,
      <<DASHES, NL, "-", "item", NL, DASHES, NL>> }

\* cell configs: a type; two keys; empty; a value that is '---' written with
\* escapes; a sequence instead of a mapping
CellConfigs ==
    { <<"type", ":", "markdown", NL>>,
      <<"type", ":", "quiz", NL, "question_id", ":", "q1", NL>>,
      <<>>,
      <<"type", ":", "markdown", NL, "sep", ":", "\"", "\\x2d\\x2d\\x2d", "\"", NL>>,
      <<"-", "item", NL>> }

CellContents ==
    { <<"Hello">>,
      <<NL, "# Introduction", NL, NL, "Content here.", NL>> }

\* a cell: its config, a line ---, its content
CellTexts == { cfg \o <<DASHES, NL>> \o content : cfg \in CellConfigs,
                                                    content \in CellContents }

\* a document begins with a front-matter block and holds up to MaxCells cells,
\* each separated from the next by a line ---
UlfTexts ==
    { fm \o Join(cells, <<NL, DASHES, NL>>) :
          fm \in FrontMatters,
          cells \in UNION { [1..n -> CellTexts] : n \in 0..MaxCells } }

\* further front matters for the serving parser: the alias lesson_slug; no title;
\* no slug; an empty slug; a lesson_id that is a UUID; an id that is none; a slug
\* with a space; a course_slug
ServeFrontMatters ==
    { <<DASHES, NL, "lesson_slug", ":", "s1", NL, "title", ":", "T1", NL, DASHES, NL>>,
      <<DASHES, NL, "slug", ":", "s1", NL, DASHES, NL>>,
      <<DASHES, NL, "title", ":", "T1", NL, DASHES, NL>>,
      <<DASHES, NL, "slug", ":", "'", "'", NL, "title", ":", "T1", NL, DASHES, NL>>,
      <<DASHES, NL, "slug", ":", "s1", NL, "title", ":", "T1", NL,
        "lesson_id", ":", "aaaaaaaaaaaaaaaaaaaaaaaaaaaaaaaa", NL, DASHES, NL>>,
      <<DASHES, NL, "slug", ":", "s1", NL, "title", ":", "T1", NL,
        "id", ":", "not-a-uuid", NL, DASHES, NL>>,
      <<DASHES, NL, "slug", ":", "my slug", NL, "title", ":", "T1", NL, DASHES, NL>>,
      <<DASHES, NL, "slug", ":", "s1", NL, "title", ":", "T1", NL,
        "course_slug", ":", "c1", NL, DASHES, NL>> }

\* bodies: none; blank; an untyped cell; one cell; a typed cell followed by an
\* untyped one
ServeBodies ==
    { <<>>,
      <<NL>>,
      <<"question_id", ":", "q1", NL, DASHES, NL, "Hello">>,
      <<"type", ":", "markdown", NL, DASHES, NL, "Hello">>,
      <<"type", ":", "markdown", NL, DASHES, NL, "Hello", NL, DASHES, NL,
        "question_id", ":", "q1", NL, DASHES, NL, "Hello">> }

\* texts handed to the serving parser: the documents above, and texts without the
\* leading --- or without the line --- that closes the front matter
ServeTexts ==
    UlfTexts
    \cup { fm \o body : fm \in ServeFrontMatters, body \in ServeBodies }
    \cup { <<"foo", ":", "bar", NL, DASHES, NL, "content">>,
           <<DASHES, NL, "not yaml">>,
           <<DASHES, NL, "slug", ":", "s1", NL, "title", ":", "T1", NL, DASHES>>,
           <<"slug", ":", "s1", NL, "title", ":", "T1">>,
           <<"slug", ":", "s1", NL, "title", ":", "T1", NL, DASHES, NL>>,
           <<>> }

NoCodecCall ==
    [op |-> "none", text |-> <<>>, parsed |-> ParsingError, out |-> <<>>,
     reparsed |-> ParsingError, served |-> Returned(<<>>)]

InitCodec ==
    /\ fs = NoCoursesFs
    /\ last = NoCodecCall
    /\ steps = 0
    /\ cache = EmptyCache
    /\ dirty = FALSE
    /\ _lesson_path_cache = <<>>
    /\ tasks = <<>>
    /\ _lesson_cache = <<>>
    /\ now = 0

\* ULFParserService.parse(text)
ParseText ==
    \E text \in UlfTexts :
        /\ last.op = "none"
        /\ last' = [NoCodecCall EXCEPT !.op = "parse", !.text = text,
                                       !.parsed = parse(text)]
        /\ UNCHANGED <<fs, steps, cache, dirty, _lesson_path_cache, _lesson_cache, now, tasks>>

\* ULFParserService.stringify(parsed)
StringifyDoc ==
    /\ last.op = "parse"
    /\ last.parsed.ok
    /\ last' = [last EXCEPT !.op = "stringify", !.out = stringify(last.parsed.doc)]
    /\ UNCHANGED <<fs, steps, cache, dirty, _lesson_path_cache, _lesson_cache, now, tasks>>

\* ULFParserService.parse(stringified)
ReparseText ==
    /\ last.op = "stringify"
    /\ last' = [last EXCEPT !.op = "reparse", !.reparsed = parse(last.out)]
    /\ UNCHANGED <<fs, steps, cache, dirty, _lesson_path_cache, _lesson_cache, now, tasks>>

\* parse_lesson_file_from_text(text)
ParseLessonText ==
    \E text \in ServeTexts :
        /\ last.op = "none"
        /\ last' = [NoCodecCall EXCEPT !.op = "parse_lesson_file_from_text",
                                       !.text = text,
                                       !.served = parse_lesson_file_from_text(text)]
        /\ UNCHANGED <<fs, steps, cache, dirty, _lesson_path_cache, _lesson_cache, now, tasks>>

NextCodec ==
    \/ ParseText
    \/ ParseLessonText
    \/ StringifyDoc
    \/ ReparseText

SpecCodec == InitCodec /\ [][NextCodec]_vars

(***************************************************************************)
(* Specification SpecEdit: editors submit lesson texts through             *)
(* update_lesson_raw while the content tree is built                       *)
(***************************************************************************)
MaxEdits == 2

EditSlugs == { <<"a">>, <<"b">>, <<"q">> }

\* submitted texts: two valid documents, a body without a cell, a front matter
\* that is not valid YAML, a cell without a front matter before it, an oversized text
EditTexts ==
    { <<DASHES, NL, "title", ":", "T1", NL, "slug", ":", "s1", NL, DASHES, NL,
        "type", ":", "markdown", NL, DASHES, NL, "Hello">>,
      <<DASHES, NL, "slug", ":", "s1", NL, "title", ":", "'", "2024", "'", NL,
        DASHES, NL, "type", ":", "markdown", NL, DASHES, NL,
        NL, "# Introduction", NL, NL, "Content here.", NL>>,
      <<DASHES, NL, "title", ":", "T1", NL, "slug", ":", "s1", NL, DASHES, NL,
        "Hello">>,
      <<DASHES, NL, "title", ":", "[", NL, DASHES, NL,
        "type", ":", "markdown", NL, DASHES, NL, "Hello">>,
      <<"type", ":", "markdown", NL, DASHES, NL, "Hello">>,
      <<BIG>> }

InitEdit ==
    /\ fs = TreeInitFs
    /\ last = NoTreeCall
    /\ steps = 0
    /\ cache = EmptyCache
    /\ dirty = FALSE
    /\ _lesson_path_cache = <<>>
    /\ tasks = <<>>
    /\ _lesson_cache = <<>>
    /\ now = 0

\* PUT /{slug}/raw with the submitted content; oserr: the OS refuses the write; the
\* clock has advanced since the request before, and stamps the file written
UpdateLessonRaw ==
    /\ steps < MaxEdits
    /\ \E slug \in EditSlugs, content \in EditTexts, oserr \in BOOLEAN :
        \E out \in update_lesson_raw(fs, _lesson_path_cache, cache, slug, content,
                                     oserr) :
            /\ fs' = (IF out.status = 200 THEN Stamp(out.fs, out.path, now + 1)
                      ELSE out.fs)
            /\ now' = now + 1
            /\ cache' = out.cache
            /\ _lesson_path_cache' = out.lesson_path_cache
            /\ UNCHANGED <<tasks, _lesson_cache>>
            /\ steps' = steps + 1
            /\ dirty' = (dirty /\ out.status # 200)
            /\ last' = [op |-> "update_lesson_raw", slug |-> slug,
                        content |-> content, status |-> out.status,
                        path |-> out.path, calls |-> out.calls,
                        before |-> [fs |-> fs, cache |-> cache]]

\* GET /{slug}
GetLessonContent ==
    \E slug \in EditSlugs :
        \E out \in get_lesson_content(fs, _lesson_path_cache, _lesson_cache, slug) :
            /\ _lesson_path_cache' = out.lesson_path_cache
            /\ _lesson_cache' = out.lesson_cache
            /\ last' = [op |-> "get_lesson_content", slug |-> slug, content |-> <<>>,
                        status |-> out.status, path |-> out.path, calls |-> <<>>,
                        before |-> [fs |-> fs, cache |-> cache],
                        exc |-> out.exc, detail |-> out.detail, value |-> out.value]
            /\ UNCHANGED <<fs, steps, cache, dirty, tasks, now>>

NextEdit ==
    \/ Build
    \/ UpdateLessonRaw
    \/ GetLessonContent

SpecEdit == InitEdit /\ [][NextEdit]_vars

(***************************************************************************)
(* Specification SpecAdmin: administrators call the content-mutating       *)
(* endpoints while the content tree is built                               *)
(***************************************************************************)
MaxRequests == 1

\* the content at start: the course c1; the same with a file at courses/c2; no
\* courses directory
AdminInitFs ==
    { TreeInitFs,
      PutFile(TreeInitFs, Under(CoursesDir, << <<"c2">> >>), <<>>),
      NoCoursesFs }

InitAdmin ==
    /\ fs \in AdminInitFs
    /\ last = NoTreeCall
    /\ steps = 0
    /\ cache = EmptyCache
    /\ dirty = FALSE
    /\ _lesson_path_cache = <<>>
    /\ tasks = <<>>
    /\ _lesson_cache = <<>>
    /\ now = 0

\* path arguments: a config file, a lesson, a course, a missing file, "", "/etc",
\* "courses\..\x"
AdminPaths ==
    { C1_COURSE_YML,
      <<"courses", "/", "c1", "/", "a", ".lesson">>,
      <<"courses", "/", "c1">>,
      <<"courses", "/", "c9", "/", "_course.yml">>,
      <<>>,
      <<"/", "etc">>,
      <<"courses", "\\", "..", "\\", "x">> }

AdminContents == { <<"title", ":", "Intro", NL>> }

\* request bodies: a course; a module of c1; lessons of the module titled Basics
\* and of a module no course holds; a slug with a space; a missing title
AdminRequests ==
    { [item_type |-> "course",
       body |-> [k \in {"title", "slug"} |->
                    IF k = "title" THEN <<"Intro">> ELSE <<"c2">>]],
      [item_type |-> "course",
       body |-> [k \in {"title", "slug"} |->
                    IF k = "title" THEN <<"Intro">> ELSE <<"my slug">>]],
      [item_type |-> "module", body |-> [k \in {"slug"} |-> <<"c2">>]],
      [item_type |-> "module",
       body |-> [k \in {"title", "slug", "parent_slug"} |->
                    CASE k = "title" -> <<"Intro">> [] k = "slug" -> <<"m2">>
                      [] OTHER -> <<"c1">>]],
      [item_type |-> "lesson",
       body |-> [k \in {"title", "slug", "parent_slug"} |->
                    CASE k = "title" -> <<"Intro">> [] k = "slug" -> <<"d">>
                      [] OTHER -> <<"Basics">>]],
      [item_type |-> "lesson",
       body |-> [k \in {"title", "slug", "parent_slug"} |->
                    CASE k = "title" -> <<"Intro">> [] k = "slug" -> <<"d">>
                      [] OTHER -> <<"m9">>]] }

Answer(op, arg, out) ==
    /\ steps' = steps + 1
    /\ fs' = out.fs
    /\ cache' = out.cache
    /\ dirty' = FALSE
    /\ last' = [op |-> op, arg |-> arg, status |-> out.status, calls |-> out.calls,
                before |-> [fs |-> fs, cache |-> cache]]
    /\ UNCHANGED <<_lesson_path_cache, _lesson_cache, now, tasks>>

\* PUT /config-file?path=...
UpdateConfigFile ==
    /\ steps < MaxRequests
    /\ \E path \in AdminPaths, content \in AdminContents, oserr \in BOOLEAN :
          \E out \in {update_config_file(fs, cache, path, content, oserr)} :
              Answer("update_config_file", path, out)

\* POST /create/{item_type}
CreateItem ==
    /\ steps < MaxRequests
    /\ \E request \in AdminRequests, refused \in 0..2, lesson_id \in UuidTokens :
          \E out \in {create_item(fs, cache, request.item_type, request.body,
                                  <<lesson_id>>, TreeNames, refused)} :
              Answer("create_item", <<request.item_type>>, out)

\* DELETE /item?path=...
DeleteItem ==
    /\ steps < MaxRequests
    /\ \E path \in AdminPaths, oserr \in BOOLEAN :
          \E out \in {delete_item(fs, cache, path, oserr)} :
              Answer("delete_item", path, out)

\* PUT /{slug}/raw, as one of the MaxRequests requests
UpdateLessonRawRequest ==
    /\ steps < MaxRequests
    /\ UpdateLessonRaw

NextAdmin ==
    \/ Build
    \/ UpdateLessonRawRequest
    \/ UpdateConfigFile
    \/ CreateItem
    \/ DeleteItem

SpecAdmin == InitAdmin /\ [][NextAdmin]_vars

(***************************************************************************)
(* Specification SpecConc: coroutines of one event loop call               *)
(* build_content_tree on one ContentScannerService while content is        *)
(* written and the cache is cleared.  A coroutine runs without             *)
(* interruption up to its next await: the call up to the first await of    *)
(* the scan, the scan, and the store with the release of the lock.  The    *)
(* scan reads the file system at one instant between the two; the awaits   *)
(* inside it give the other coroutines their turns.                        *)
(***************************************************************************)
MaxCallers == 2
MaxConcWrites == 1
Callers == 1..MaxCallers

\* the writes of the other requests: a new course title, a new lesson
ConcMutations ==
    { Mutation("write_file", C1_COURSE_YML, <<"title", ":", "Intro", NL>>),
      Mutation("write_file", C1_D_LESSON, <<>>) }

NoResult == [status |-> "none", error |-> "", tree |-> <<>>, hit |-> FALSE, version |-> 0]

\* no coroutine has called; versions is the history of the file system, cleared
\* the number of the version at the last clear_cache(), cached that of the version
\* the cached tree was scanned from
InitTasks ==
    [pc |-> [k \in Callers |-> "idle"],
     lock |-> 0,
     waiters |-> <<>>,
     scanned |-> [k \in Callers |-> NoResult],
     result |-> [k \in Callers |-> NoResult],
     started |-> [k \in Callers |-> 0],
     waited |-> [k \in Callers |-> FALSE],
     versions |-> <<TreeInitFs>>,
     cleared |-> 1,
     cached |-> 0,
     scans |-> 0,
     intervened |-> FALSE]

\* asyncio.Lock.acquire() returns at once when the lock is free and nobody waits
CanAcquireAlways(t) == TRUE
CanAcquire(t) == t.lock = 0 /\ t.waiters = <<>>

\* under the lock: cached_tree = self._cache.get(cache_key); a tree is returned
\* and the lock released, otherwise the scan is awaited with the lock held
Lookup(t, c, k) ==
    IF c.full
    THEN [t EXCEPT !.pc[k] = "done",
                   !.result[k] = [status |-> "ok", error |-> "", tree |-> c.tree,
                                  hit |-> TRUE, version |-> t.cached]]
    ELSE [t EXCEPT !.pc[k] = "scanning", !.lock = k]

\* the content at the start: the courses of TreeInitFs, no 'courses' directory, or
\* a file of that name
ConcInitFs == {TreeInitFs, NoCoursesFs, CoursesIsFileFs}

InitConc ==
    /\ fs \in ConcInitFs
    /\ last = NoTreeCall
    /\ steps = 0
    /\ cache = EmptyCache
    /\ dirty = FALSE
    /\ _lesson_path_cache = <<>>
    /\ tasks = [InitTasks EXCEPT !.versions = <<fs>>]
    /\ _lesson_cache = <<>>
    /\ now = 0

\* coroutine k calls build_content_tree(): it enters the lock, or waits for it
CallBuild(k) ==
    /\ tasks.pc[k] = "idle"
    /\ tasks' = (IF CanAcquire(tasks)
                 THEN Lookup([tasks EXCEPT !.started[k] = tasks.cleared], cache, k)
                 ELSE [tasks EXCEPT !.started[k] = tasks.cleared,
                                    !.pc[k] = "waiting",
                                    !.waited[k] = TRUE,
                                    !.waiters = Append(tasks.waiters, k)])
    /\ UNCHANGED <<fs, last, steps, cache, dirty, _lesson_path_cache, _lesson_cache, now>>

\* the first waiter is given the released lock
Resume(k) ==
    /\ tasks.pc[k] = "waiting"
    /\ tasks.lock = 0
    /\ Head(tasks.waiters) = k
    /\ tasks' = Lookup([tasks EXCEPT !.waiters = Tail(tasks.waiters)], cache, k)
    /\ UNCHANGED <<fs, last, steps, cache, dirty, _lesson_path_cache, _lesson_cache, now>>

\* the scan of 'courses' and of the directories below it reads the file system; an
\* error leaves the lock and stores nothing
ScanContent(k) ==
    /\ tasks.pc[k] = "scanning"
    /\ \E d \in TreeDenied :
         \E b \in {build_content_tree(fs, EmptyCache, TreeNames, d)} :
            tasks' = (IF b.status = "raise"
                      THEN [tasks EXCEPT !.pc[k] = "done", !.lock = 0,
                                         !.scans = tasks.scans + 1,
                                         !.result[k] =
                                             [NoResult EXCEPT !.status = "raise",
                                                              !.error = b.error]]
                      ELSE [tasks EXCEPT !.pc[k] = "scanned",
                                         !.scans = tasks.scans + 1,
                                         !.scanned[k] =
                                             [NoResult EXCEPT
                                                  !.status = "ok", !.tree = b.tree,
                                                  !.version = Len(tasks.versions)]])
    /\ UNCHANGED <<fs, last, steps, cache, dirty, _lesson_path_cache, _lesson_cache, now>>

\* self._cache[cache_key] = root_nodes; return root_nodes (the lock is released)
StoreTree(k) ==
    /\ tasks.pc[k] = "scanned"
    /\ cache' = CacheOf(tasks.scanned[k].tree)
    /\ tasks' = [tasks EXCEPT !.pc[k] = "done", !.lock = 0,
                              !.cached = tasks.scanned[k].version,
                              !.result[k] = tasks.scanned[k]]
    /\ UNCHANGED <<fs, last, steps, dirty, _lesson_path_cache, _lesson_cache, now>>

\* another request's Store mutation completes
WriteContent ==
    /\ steps < MaxConcWrites
    /\ \E m \in ConcMutations :
         \E out \in {ApplyMutation(fs, m)} :
            /\ out.result = "ok"
            /\ out.fs # fs
            /\ fs' = out.fs
            /\ tasks' = [tasks EXCEPT !.versions = Append(tasks.versions, out.fs)]
    /\ steps' = steps + 1
    /\ dirty' = TRUE
    /\ UNCHANGED <<last, cache, _lesson_path_cache, _lesson_cache, now>>

\* cs_service.clear_cache(), called without the lock
ClearCacheNow ==
    /\ cache' = clear_cache(cache)
    /\ dirty' = FALSE
    /\ tasks' = [tasks EXCEPT !.cleared = Len(tasks.versions), !.intervened = TRUE]
    /\ UNCHANGED <<fs, last, steps, _lesson_path_cache, _lesson_cache, now>>

\* 3600 s pass after the slot was filled
ExpireNow ==
    /\ cache.full
    /\ cache' = EmptyCache
    /\ tasks' = [tasks EXCEPT !.intervened = TRUE]
    /\ UNCHANGED <<fs, last, steps, dirty, _lesson_path_cache, _lesson_cache, now>>

NextConc ==
    \/ \E k \in Callers : CallBuild(k)
    \/ \E k \in Callers : Resume(k)
    \/ \E k \in Callers : ScanContent(k)
    \/ \E k \in Callers : StoreTree(k)
    \/ WriteContent
    \/ ClearCacheNow
    \/ ExpireNow

SpecConc == InitConc /\ [][NextConc]_vars


(***************************************************************************)
(* Specification SpecMemo: parse_lesson_file is called on a lesson file    *)
(* that other processes rewrite and remove while the clock advances        *)
(***************************************************************************)
MaxTime == 2

LessonA == Under(CoursesDir, << <<"c1">>, LessonFile("a") >>)
MemoPaths ==
    { LessonA, Under(CoursesDir, << <<"c1">>, LessonFile("d") >>),
      Under(CoursesDir, << <<"c1">> >>) }

\* lesson texts: two documents without cells, one with CRLF line ends, one without
\* title, one with a cell, one without the closing ---
MemoTexts ==
    { <<DASHES, NL, "slug", ":", "s1", NL, "title", ":", "T1", NL, DASHES, NL>>,
      <<DASHES, NL, "slug", ":", "s1", NL, "title", ":", "T2", NL, DASHES, NL>>,
      <<DASHES, CR, NL, "slug", ":", "s1", CR, NL, "title", ":", "T3", CR, NL,
        DASHES, CR, NL>>,
      <<DASHES, NL, "slug", ":", "s1", NL, DASHES, NL>>,
      <<DASHES, NL, "slug", ":", "s1", NL, "title", ":", "T1", NL, DASHES, NL,
        "type", ":", "markdown", NL, DASHES, NL, "Hello">>,
      <<DASHES, NL, "slug", ":", "s1", NL, "title", ":", "T1", NL, DASHES>> }

NoMemoCall ==
    [op |-> "none", path |-> <<>>, result |-> Returned(<<>>), text |-> <<>>,
     served |-> Returned(<<>>), memo |-> <<>>]

InitMemo ==
    /\ fs = [TreeInitFs EXCEPT ![LessonA] = StampedFile(<<>>, 0)]
    /\ last = NoMemoCall
    /\ steps = 0
    /\ cache = EmptyCache
    /\ dirty = FALSE
    /\ _lesson_path_cache = <<>>
    /\ tasks = <<>>
    /\ _lesson_cache = <<>>
    /\ now = 0

\* a process writes the lesson file: the file is stamped with the clock's value
WriteLessonFile ==
    /\ \E c \in MemoTexts :
           /\ fs' = (LessonA :> StampedFile(c, now)) @@ fs
           /\ last' = [NoMemoCall EXCEPT !.op = "write", !.path = LessonA, !.text = c]
    /\ UNCHANGED <<steps, cache, dirty, _lesson_path_cache, tasks, _lesson_cache, now>>

\* a process removes the lesson file
RemoveLessonFile ==
    /\ Exists(fs, LessonA)
    /\ fs' = Unlink(fs, LessonA)
    /\ last' = [NoMemoCall EXCEPT !.op = "remove", !.path = LessonA]
    /\ UNCHANGED <<steps, cache, dirty, _lesson_path_cache, tasks, _lesson_cache, now>>

\* the clock advances past the resolution of st_mtime
PassTime ==
    /\ now < MaxTime
    /\ now' = now + 1
    /\ last' = [NoMemoCall EXCEPT !.op = "pass_time"]
    /\ UNCHANGED <<fs, steps, cache, dirty, _lesson_path_cache, tasks, _lesson_cache>>

\* parse_lesson_file(path)
ParseLessonFile ==
    /\ \E path \in MemoPaths :
         \E out \in {parse_lesson_file(fs, _lesson_cache, path)} :
            /\ _lesson_cache' = out.lesson_cache
            /\ last' = [NoMemoCall EXCEPT !.op = "parse_lesson_file", !.path = path,
                                          !.result = out.result,
                                          !.memo = _lesson_cache]
    /\ UNCHANGED <<fs, steps, cache, dirty, _lesson_path_cache, tasks, now>>

\* parse_lesson_file_from_text(text) on the content of the file just parsed by path
ParseTextOfFile ==
    /\ last.op = "parse_lesson_file"
    /\ IsFileAt(fs, last.path)
    /\ last' = [last EXCEPT !.op = "parse_lesson_file_from_text",
                            !.text = fs[last.path].content,
                            !.served = parse_lesson_file_from_text(fs[last.path].content)]
    /\ UNCHANGED <<fs, steps, cache, dirty, _lesson_path_cache, tasks, _lesson_cache, now>>

NextMemo ==
    \/ WriteLessonFile
    \/ RemoveLessonFile
    \/ PassTime
    \/ ParseLessonFile
    \/ ParseTextOfFile

SpecMemo == InitMemo /\ [][NextMemo]_vars
(***************************************************************************)
(* Claims about the FileSystemService (checked under SpecStore)            *)
(***************************************************************************)
Range(q) == {q[i] : i \in 1..Len(q)}

\* the path is the content root or lies beneath it (segment by segment)
Inside(p) == IsPrefix(content_root, p)

HasParDirSegment(s) == PARDIR \in Range(ParseSegments(s))
BeginsWithSlash(s) == Len(s) > 0 /\ s[1] \in {"/", "\\"}
MustBeRejected(s) ==
    HasParDirSegment(s) \/ BeginsWithSlash(s) \/ ~Inside(AbsolutePath(s))

Called == last.op # "none"
Unchanged == fs = last.before

\* the paths the last call handed to the operating system
OsPaths ==
    {last.calls[i].path :
        i \in {j \in 1..Len(last.calls) : last.calls[j].call # "security_check"}}
\* the paths whose entry the last call created, removed or rewrote
ChangedPaths ==
    {q \in DOMAIN fs \cup DOMAIN last.before :
        \/ q \notin DOMAIN fs
        \/ q \notin DOMAIN last.before
        \/ fs[q] # last.before[q]}

\* C1: every Store operation given a path that contains a ".." segment, begins
\* with "/" or "\", or resolves outside the content root fails with SecurityError
\* and leaves the file system unchanged.
C1_RejectsEscapingPaths ==
    (Called /\ MustBeRejected(last.path)) =>
        (last.result = "SecurityError" /\ Unchanged)

\* C2: confinement: every path a Store operation probes, opens, lists, creates,
\* removes or renames is the content root or a descendant of it.
C2_Confinement ==
    Called => \A q \in OsPaths \cup ChangedPaths : Inside(q)

\* C3: rename_item of a source inside the content root with a newName that places
\* parent(path)/newName outside the root fails with SecurityError and renames
\* nothing; a rename that succeeds has its destination inside the root.
RenameDestination == Resolve(NewAbsolutePath(AbsolutePath(last.path), last.newName))
C3_RenameStaysInside ==
    (last.op = "rename_item" /\ Inside(AbsolutePath(last.path))) =>
        /\ ~Inside(RenameDestination) => (last.result = "SecurityError" /\ Unchanged)
        /\ last.result = "ok" => Inside(RenameDestination)

\* C4: the sandbox check on the requested path is the first step of every Store
\* operation, and a path outside the sandbox yields SecurityError whatever the
\* state of the target.
C4_CheckComesFirst ==
    Called =>
        /\ last.calls[1] = Call("security_check", AbsolutePath(last.path))
        /\ ~Inside(AbsolutePath(last.path)) => last.result = "SecurityError"


\* the target of the last call and what it was before the call
Target == AbsolutePath(last.path)
TargetExisted == Exists(last.before, Target)
\* the target and everything beneath it before the call
TargetSubtree == {q \in DOMAIN last.before : IsPrefix(Target, q)}
Deleting == last.op \in {"delete_file", "delete_directory"}
WrongKindGiven ==
    /\ TargetExisted
    /\ \/ last.op = "delete_file" /\ ~IsFileAt(last.before, Target)
       \/ last.op = "delete_directory" /\ ~IsDirAt(last.before, Target)

\* C15: past the sandbox check, delete_file and delete_directory fail with
\* ContentFileNotFoundError on a missing target, fail on a target of the other kind
\* with an error that is not the generic FileSystemOperationError, remove nothing in
\* both cases, and on success remove the target (a directory with everything beneath
\* it) and change no other path.
C15_DeleteByKind ==
    (Deleting /\ last.result # "SecurityError") =>
        /\ ~TargetExisted => (last.result = "ContentFileNotFoundError" /\ Unchanged)
        /\ WrongKindGiven =>
              /\ last.result \notin {"ok", "ContentFileNotFoundError",
                                     "FileSystemOperationError"}
              /\ Unchanged
        /\ last.result = "ok" =>
              /\ Target \notin DOMAIN fs
              /\ ChangedPaths = (IF last.op = "delete_file" THEN {Target}
                                 ELSE TargetSubtree)

\* C16: a successful write_file(p, c) leaves at p a file read back as exactly c,
\* creates the missing parent directories of p and changes no other path; a
\* successful read_file(p) returns the text last written to p and changes nothing.
C16_WriteThenRead ==
    /\ (last.op = "write_file" /\ last.result = "ok") =>
          /\ IsFileAt(fs, Target)
          /\ UniversalNewlines(fs[Target].content) = last.content
          /\ \A q \in Prefixes(Parent(Target)) : IsDirAt(fs, q)
          /\ ChangedPaths \subseteq {Target} \cup (Prefixes(Target) \ DOMAIN last.before)
    /\ (last.op = "read_file" /\ last.result = "ok") =>
          /\ last.value = last.before[Target].content
          /\ Unchanged

\* C18: create_directory(p) on a p that is a directory succeeds and changes
\* nothing; a call that succeeds leaves p and its ancestors directories, creates
\* only the missing ones, and a further call on the state it leaves succeeds and
\* changes nothing.
C18_CreateDirectoryIdempotent ==
    /\ \A p \in StorePaths :
          (SecurityCheck(AbsolutePath(p)) /\ IsDirAt(fs, AbsolutePath(p))) =>
              /\ create_directory(fs, p, FALSE).result = "ok"
              /\ create_directory(fs, p, FALSE).fs = fs
    /\ (last.op = "create_directory" /\ last.result = "ok") =>
          /\ \A q \in Prefixes(Target) : IsDirAt(fs, q)
          /\ ChangedPaths = Prefixes(Target) \ DOMAIN last.before
          /\ IsDirAt(last.before, Target) => Unchanged
          /\ create_directory(fs, last.path, FALSE).result = "ok"
          /\ create_directory(fs, last.path, FALSE).fs = fs

\* create_directory("b/g") has been called a second time
C18_Witness ==
    /\ last.op = "create_directory"
    /\ last.path = <<"b", "/", "g">>
    /\ last.result = "ok"
    /\ IsDirAt(last.before, Target)
    /\ ~IsDirAt(StoreInitFs, Parent(Target))
    /\ Unchanged
(***************************************************************************)
(* Claims about the ContentScannerService (checked under SpecTree and      *)
(* SpecScan)                                                               *)
(***************************************************************************)
\* the trees a scan of file system f can return, over the orders in which the
\* directories may yield their entries
FreshTrees(f) ==
    { b.tree : b \in { x \in { build_content_tree(f, EmptyCache, o, {}) :
                                   o \in TreeOrders } : x.status = "ok" } }

RECURSIVE NodesOf(_)
NodesOf(nodes) ==
    UNION { {nodes[i]} \cup NodesOf(nodes[i].children) : i \in 1..Len(nodes) }

\* C5: when a build_content_tree() returns a tree and every Store mutation made so
\* far was followed by a clear_cache(), that tree is one a scan of the current file
\* system yields: it includes the writes, and is never a tree cached before them.
C5_BuildAfterClearReflectsWrite ==
    (last.op = "build" /\ last.status = "ok" /\ ~dirty) => last.value \in FreshTrees(fs)

\* a build after write_file(courses/c1/_course.yml, "title: Intro") and clear_cache()
\* returns course c1 under the written title
C5_Witness ==
    /\ last.op = "build" /\ last.status = "ok" /\ ~dirty /\ steps >= 1
    /\ \E n \in NodesOf(last.value) :
           n.type = "course" /\ n.name = <<"Intro">> /\ n.path = <<"courses", "/", "c1">>

\* the directory a node stands for: its own, or for a lesson the one holding the file
NodeDir(n) ==
    IF n.type = "lesson" THEN Parent(AbsolutePath(n.path)) ELSE AbsolutePath(n.path)
HasConfig(f, dir) ==
    IsFileAt(f, Append(dir, COURSE_YML)) \/ IsFileAt(f, Append(dir, MODULE_YML))
\* dir and its ancestors below 'courses'
UpToCourses(dir) == { SubSeq(dir, 1, k) : k \in (Len(CoursesDir) + 1)..Len(dir) }
DirX == Under(CoursesDir, << <<"x">> >>)

\* C6: in every tree build_content_tree returns, each node stands for (a lesson: lies
\* in) a directory that holds _course.yml or _module.yml, and so does every ancestor
\* of that directory below 'courses': a directory without a config file yields no
\* node and nothing beneath it appears.
C6_Pruning ==
    (last.op = "build" /\ last.status = "ok") =>
        \A n \in NodesOf(last.value) :
            /\ IsDirAt(fs, NodeDir(n))
            /\ \A d \in UpToCourses(NodeDir(n)) : HasConfig(fs, d)

\* a tree was built while courses/x, without a config file, held z.lesson and the
\* configured module m2
C6_Witness ==
    /\ last.op = "build" /\ last.status = "ok" /\ ~last.hit
    /\ \E n \in NodesOf(last.value) : n.type = "course"
    /\ ~HasConfig(fs, DirX)
    /\ IsFileAt(fs, Append(DirX, LessonFile("z")))
    /\ HasConfig(fs, Append(DirX, <<"m2">>))

DirC1 == Under(CoursesDir, << <<"c1">> >>)

\* C9: whatever c1's config file holds, and also when it cannot be read, a build of
\* a scannable 'courses' raises nothing and returns the node of c1.
C9_TitleFallbackNeverRaises ==
    (/\ last.op = "build"
     /\ last.denied \in { {}, {Append(DirC1, COURSE_YML)} }
     /\ IsDirAt(fs, CoursesDir)) =>
        /\ last.status = "ok"
        /\ HasConfig(fs, DirC1) =>
               \E i \in 1..Len(last.value) : last.value[i].path = <<"courses", "/", "c1">>

\* the positions of the lesson leaves below a node: sequences of child indices
RECURSIVE LeafPositions(_)
LeafPositions(node) ==
    UNION { IF node.children[i].type = "lesson"
            THEN { <<i>> }
            ELSE { <<i>> \o q : q \in LeafPositions(node.children[i]) } :
            i \in 1..Len(node.children) }
RECURSIVE NodeAt(_, _)
NodeAt(node, pos) ==
    IF pos = <<>> THEN node ELSE NodeAt(node.children[Head(pos)], Tail(pos))
\* document order: p comes before q
RECURSIVE Before(_, _)
Before(p, q) ==
    /\ p # <<>> /\ q # <<>>
    /\ \/ Head(p) < Head(q)
       \/ Head(p) = Head(q) /\ Before(Tail(p), Tail(q))
\* the tree the call worked on: the one it left in the cache
MatchedCourse == cache.tree[FirstMatch(cache.tree, 1, Lower(last.arg))]

\* C10: for a matched course, get_course_lesson_slugs returns one name per lesson
\* leaf of the course's subtree, the k-th name being that of the leaf with k - 1
\* leaves before it in document order.
C10_DocumentOrder ==
    (/\ last.op = "slugs" /\ last.status = "ok"
     /\ FirstMatch(cache.tree, 1, Lower(last.arg)) # 0) =>
        LET leaves == LeafPositions(MatchedCourse)
        IN  /\ Len(last.value) = Cardinality(leaves)
            /\ \A p \in leaves :
                   last.value[Cardinality({q \in leaves : Before(q, p)}) + 1]
                       = NodeAt(MatchedCourse, p).name

\* course c1 yields a, b, c: b lies in module m1, between the leaves a and c
C10_Witness ==
    /\ last.op = "slugs" /\ last.status = "ok"
    /\ last.value = << <<"a">>, <<"b">>, <<"c">> >>
    /\ \E p \in LeafPositions(MatchedCourse) : Len(p) = 2

(***************************************************************************)
(* Claims about the ULFParserService (checked under SpecCodec)             *)
(***************************************************************************)
\* the text follows the format: a front-matter mapping with slug and title, and
\* every cell's metadata declares type
WellFormed(doc) ==
    /\ {"slug", "title"} \subseteq DOMAIN doc.frontmatter
    /\ \A i \in 1..Len(doc.cells) : "type" \in DOMAIN doc.cells[i].config

\* C7: for every well-formed text that parse accepts, stringifying the parsed
\* document and parsing the result succeeds and yields the same front-matter fields
\* and the same cells (config and content) in the same order.
C7_RoundTrip ==
    (last.op = "reparse" /\ WellFormed(last.parsed.doc)) =>
        (last.reparsed.ok /\ last.reparsed.doc = last.parsed.doc)

(***************************************************************************)
(* Claims about update_lesson_raw (checked under SpecEdit)                 *)
(***************************************************************************)
\* C8: after update_lesson_raw, if parse rejects the submitted text then write_file
\* was not called and the file system and the tree cache are as before the request;
\* if the request succeeded, the lesson file holds the submitted text itself.
C8_ValidateBeforeWrite ==
    last.op = "update_lesson_raw" =>
        /\ ~parse(last.content).ok =>
               /\ \A i \in 1..Len(last.calls) : last.calls[i] # "write_file"
               /\ fs = last.before.fs
               /\ cache = last.before.cache
        /\ last.status = 200 =>
               /\ IsFileAt(fs, last.path)
               /\ fs[last.path].content = last.content

\* a lesson holds a text an earlier request wrote verbatim (it differs from its
\* re-serialization); the tree was built again; a submission that does not parse
\* for the same lesson is answered 400 and leaves file and cache alone
C8_Witness ==
    /\ last.op = "update_lesson_raw" /\ last.status = 400
    /\ ~parse(last.content).ok
    /\ last.before.cache.full
    /\ fs[last.path].content \in EditTexts
    /\ parse(fs[last.path].content).ok
    /\ stringify(parse(fs[last.path].content).doc) # fs[last.path].content

\* C11: for a slug that matches no course, get_course_lesson_slugs returns the empty
\* list and raises nothing, whatever the file system holds (the outcome of an
\* invalid title, C9, set aside).
C11_SlugsNeverRaise ==
    (/\ last.op = "slugs"
     /\ last.arg = <<"missing-course">>
     /\ last.denied = {}
     /\ last.error # "ValidationError") =>
        (last.status = "ok" /\ last.value = <<>>)


(***************************************************************************)
(* Claims about the serving parser (checked under SpecCodec)               *)
(***************************************************************************)
Served == last.op = "parse_lesson_file_from_text"
BeginsWithDashes(text) == text # <<>> /\ text[1] = DASHES
HasSeparator(text) ==
    \E i \in 1..Len(text) - 2 : SubSeq(text, i, i + 2) = <<NL, DASHES, NL>>
FormatError(r) == r.status = "raise" /\ r.exc = "ULFParseError"

GoodFrontMatters ==
    { <<DASHES, NL, "title", ":", "T1", NL, "slug", ":", "s1", NL, DASHES, NL>>,
      <<DASHES, NL, "lesson_slug", ":", "s1", NL, "title", ":", "T1", NL, DASHES, NL>> }
\* front matters that break the rule: no title, no slug, an empty slug, a sequence
BadFrontMatters ==
    { <<DASHES, NL, "slug", ":", "s1", NL, DASHES, NL>>,
      <<DASHES, NL, "title", ":", "T1", NL, DASHES, NL>>,
      <<DASHES, NL, "slug", ":", "'", "'", NL, "title", ":", "T1", NL, DASHES, NL>>,
      <<DASHES, NL, "-", "item", NL, DASHES, NL>> }
\* cells as written, with the type, config and content they declare
TypedCells ==
    { [text |-> <<"type", ":", "markdown", NL, DASHES, NL, "Hello">>,
       cell |-> [type |-> <<"markdown">>, content |-> <<"Hello">>, config |-> <<>>]],
      [text |-> <<"type", ":", "quiz", NL, "question_id", ":", "q1", NL, DASHES, NL,
                  NL, "# Introduction", NL, NL, "Content here.", NL>>,
       cell |-> [type |-> <<"quiz">>,
                 content |-> <<NL, "# Introduction", NL, NL, "Content here.">>,
                 config |-> [k \in {"question_id"} |-> StrVal(<<"q1">>)]]] }
UntypedCells ==
    { [text |-> <<"question_id", ":", "q1", NL, DASHES, NL, "Hello">>] }
\* texts with one or two cells of which one declares no type
UntypedCellTexts ==
    { fm \o Join([i \in DOMAIN cells |-> cells[i].text], <<NL, DASHES, NL>>) :
          fm \in GoodFrontMatters,
          cells \in { cs \in UNION { [1..n -> TypedCells \cup UntypedCells] : n \in 1..2 } :
                          \E i \in DOMAIN cs : cs[i] \in UntypedCells } }
\* texts whose body is a single segment
OddSegmentTexts == { fm \o <<"Hello">> : fm \in GoodFrontMatters }
\* texts whose front matter breaks the rule
BadFrontMatterTexts ==
    { fm \o body : fm \in BadFrontMatters,
                   body \in {<<>>, <<"type", ":", "markdown", NL, DASHES, NL, "Hello">>} }

\* C13: a document returned by parse_lesson_file_from_text has a non-empty slug and
\* title and cells that each carry a type; a text whose front matter lacks slug or
\* title or is no mapping, whose body has an odd number of segments, or one of whose
\* cells declares no type raises ULFParseError.
C13_DocumentInvariant ==
    Served =>
        /\ last.served.status = "ok" =>
              /\ last.served.value.slug # <<>>
              /\ last.served.value.title # <<>>
              /\ \A i \in DOMAIN last.served.value.cells :
                     last.served.value.cells[i].type # <<>>
        /\ last.text \in UntypedCellTexts \cup OddSegmentTexts \cup BadFrontMatterTexts =>
              FormatError(last.served)

\* the documents of up to two typed cells, with the cells they hold
ValidDocuments ==
    { [text |-> fm \o Join([i \in DOMAIN cells |-> cells[i].text], <<NL, DASHES, NL>>),
       cells |-> [i \in DOMAIN cells |-> cells[i].cell]] :
          fm \in GoodFrontMatters,
          cells \in UNION { [1..n -> TypedCells] : n \in 0..2 } }

\* C14: for a valid text parse_lesson_file_from_text returns the cells in document
\* order, one for each pair of segments: the type is the metadata's type, the config
\* is the remaining keys, the content is the segment without trailing whitespace; a
\* text without a body yields no cell.
C14_CellsInDocumentOrder ==
    Served =>
        \A d \in ValidDocuments :
            d.text = last.text =>
                /\ last.served.status = "ok"
                /\ last.served.value.cells = d.cells



\* texts that break one rule each, with the message of the rule
RuleBreakers ==
    { [text |-> <<"foo", ":", "bar", NL, DASHES, NL, "content">>,
       message |-> "must start with front matter"],
      [text |-> <<DASHES, NL, "not yaml">>,
       message |-> "must contain front matter and a body"],
      [text |-> <<DASHES, NL, "-", "item", NL, DASHES, NL>>,
       message |-> "Invalid front matter in lesson file"],
      [text |-> <<DASHES, NL, "title", ":", "T1", NL, DASHES, NL>>,
       message |-> "Lesson front matter must include 'slug'"],
      [text |-> <<DASHES, NL, "slug", ":", "s1", NL, DASHES, NL>>,
       message |-> "Lesson front matter must include 'title'"],
      [text |-> <<DASHES, NL, "slug", ":", "s1", NL, "title", ":", "T1", NL,
                  "id", ":", "not-a-uuid", NL, DASHES, NL>>,
       message |-> "lesson_id must be a valid UUID"],
      [text |-> <<DASHES, NL, "title", ":", "T1", NL, "slug", ":", "s1", NL, DASHES, NL,
                  DASHES, NL, "Hello">>,
       message |-> "Each lesson cell must contain metadata and content"],
      [text |-> <<DASHES, NL, "title", ":", "T1", NL, "slug", ":", "s1", NL, DASHES, NL,
                  "-", "item", NL, DASHES, NL, "Hello">>,
       message |-> "Cell metadata must be valid YAML mapping"],
      [text |-> <<DASHES, NL, "lesson_slug", ":", "s1", NL, "title", ":", "T1", NL,
                  DASHES, NL, "question_id", ":", "q1", NL, DASHES, NL, "Hello">>,
       message |-> "Cell metadata must include a 'type' field"] }

\* C28: whenever parse_lesson_file_from_text raises, it raises ULFParseError; a text
\* that breaks one rule raises ULFParseError with the message of that rule, and the
\* rules have different messages.
C28_FailuresAreFormatErrors ==
    /\ \A a, b \in RuleBreakers : a.message = b.message => a = b
    /\ Served =>
           /\ last.served.status = "raise" => FormatError(last.served)
           /\ \A r \in RuleBreakers :
                  r.text = last.text =>
                      FormatError(last.served) /\ last.served.message = r.message
(***************************************************************************)
(* Claims about the content-mutating endpoints (checked under SpecAdmin)   *)
(***************************************************************************)
AdminEndpoints == {"update_config_file", "create_item", "delete_item"}
\* the Store mutation that completes an endpoint's work
FinalMutations == {"write_file", "delete_file", "delete_directory"}
ClearedAt(i) == last.calls[i].call = "clear_cache"

\* C17: an endpoint that mutates content calls clear_cache exactly when its Store
\* mutations have all succeeded, as its last call before the response, and makes
\* no clear_cache call when a Store operation raised.
C17_ClearAfterSuccess ==
    /\ last.op \in AdminEndpoints =>
          /\ (\E i \in DOMAIN last.calls : last.calls[i].result # "ok") =>
                 \A i \in DOMAIN last.calls : ~ClearedAt(i)
          /\ \A i \in DOMAIN last.calls :
                 ClearedAt(i) =>
                     /\ i = Len(last.calls)
                     /\ i > 1 /\ last.calls[i - 1].call \in FinalMutations
                     /\ ~cache.full
          /\ (\E i \in DOMAIN last.calls :
                  last.calls[i].call \in FinalMutations /\ last.calls[i].result = "ok")
                 => ClearedAt(Len(last.calls))
          /\ (last.status \in {200, 201, 204}) <=>
                 (last.calls # <<>> /\ ClearedAt(Len(last.calls)))
    /\ last.op = "update_lesson_raw" =>
          /\ last.status = 500 =>
                 \A i \in DOMAIN last.calls : last.calls[i] # "clear_cache"
          /\ \A i \in DOMAIN last.calls :
                 last.calls[i] = "clear_cache" =>
                     /\ i = Len(last.calls)
                     /\ i > 1 /\ last.calls[i - 1] = "write_file"
                     /\ ~cache.full
          /\ (last.status = 200) <=>
                 (last.calls # <<>> /\ last.calls[Len(last.calls)] = "clear_cache")
          /\ fs # last.before.fs => last.status = 200

\* a course was created while the instance held a tree: both Store calls
\* succeeded, then the cache was cleared
C17_Witness ==
    /\ last.op = "create_item"
    /\ last.status = 201
    /\ last.before.cache.full
    /\ last.calls = <<Did("create_directory", "ok"), Did("write_file", "ok"),
                      Did("clear_cache", "ok")>>
    /\ ~cache.full


(***************************************************************************)
(* Claims about concurrent builds (checked under SpecConc)                 *)
(***************************************************************************)
Finished(k) == tasks.pc[k] = "done" /\ tasks.result[k].status = "ok"
\* the tree a scan of the file system f yields
TreeOfFs(f) == build_content_tree(f, EmptyCache, TreeNames, {}).tree

\* C19: the tree returned to a build_content_tree() call is the tree of the content
\* as it was at the last clear_cache() before the call started, or of a later
\* content: a tree scanned before a write that was followed by clear_cache() is not
\* served to a call that starts after that clear_cache().
C19_NoStaleTreeAfterClear ==
    \A k \in Callers :
        Finished(k) =>
            \/ tasks.result[k].version >= tasks.started[k]
            \/ \E v \in tasks.started[k]..Len(tasks.versions) :
                   TreeOfFs(tasks.versions[v]) = tasks.result[k].tree

InFlight(k) == tasks.pc[k] \in {"scanning", "scanned"}

\* C20: at most one build_content_tree() execution is between its cache lookup and
\* its cache store, and it holds the lock; every other caller has not started, waits
\* or has returned; when no clear_cache() and no expiry occurred and every caller
\* has returned a tree, one scan was made and all callers hold the same tree.
C20_MutualExclusion ==
    /\ \A j, k \in Callers : (InFlight(j) /\ InFlight(k)) => j = k
    /\ \A k \in Callers : InFlight(k) <=> tasks.lock = k
    /\ \A k \in Callers :
           tasks.pc[k] = "waiting" <=> (\E i \in DOMAIN tasks.waiters : tasks.waiters[i] = k)
    /\ (~tasks.intervened /\ \A k \in Callers : Finished(k)) =>
           /\ tasks.scans = 1
           /\ \A j, k \in Callers : tasks.result[j].tree = tasks.result[k].tree
           /\ Cardinality({k \in Callers : ~tasks.result[k].hit}) = 1

\* every caller has returned the tree of the one scan, and one of them waited for
\* the lock while the scan was in flight
C20_Witness ==
    /\ ~tasks.intervened
    /\ \A k \in Callers : Finished(k)
    /\ tasks.scans = 1
    /\ \E k \in Callers : tasks.waited[k] /\ tasks.result[k].hit


(***************************************************************************)
(* Claims about the cache slot and the scan (checked under SpecTree and    *)
(* SpecScan)                                                               *)
(***************************************************************************)
\* C21: a build_content_tree() that finds the slot filled returns the cached tree,
\* the empty list included, leaves the slot as it is and calls the Store for nothing
\* (content changed since, or a 'courses' the system refuses to list, do not show);
\* one that finds the slot empty (never filled, cleared, expired) scans: its tree is
\* one the scan of the current content yields and fills the slot, and a refused
\* listing of 'courses' raises.
C21_StoreCalledIffSlotEmpty ==
    [][last'.op = "build" =>
          IF cache.full
          THEN /\ last'.hit
               /\ last'.status = "ok"
               /\ last'.value = cache.tree
               /\ cache' = cache
          ELSE /\ ~last'.hit
               /\ CoursesDir \in last'.denied => last'.status = "raise"
               /\ last'.status = "ok" =>
                      /\ last'.value \in FreshTrees(fs)
                      /\ cache' = CacheOf(last'.value)
               /\ last'.status = "raise" => cache' = cache]_vars

\* the slot holds the empty list (c1 lost its _course.yml); 'courses' has been
\* deleted since and its listing is refused; the build returns the cached empty list
C21_Witness ==
    /\ last.op = "build" /\ last.hit /\ last.status = "ok"
    /\ last.value = <<>>
    /\ cache = CacheOf(<<>>)
    /\ CoursesDir \in last.denied
    /\ ~Exists(fs, CoursesDir)


(***************************************************************************)
(* Claims about a failed scan of 'courses' (checked under SpecConc)        *)
(***************************************************************************)
\* the outcome of the Store's scan_directory('courses') on file system f
RootScan(f, oserr) == scan_directory(f, COURSES, TreeNames, oserr).result
\* caller k's scan ends in this step
ScanEnds(k) == tasks.pc[k] = "scanning" /\ tasks'.pc[k] # "scanning"

\* C22: when the scan of 'courses' fails (missing, not a directory, refused by the
\* operating system) build_content_tree raises the error scan_directory raised,
\* leaves the cache slot as it was (empty) and gives the lock back with the queue of
\* waiters untouched; a build raises in no other case.
C22_RootScanFailurePropagates ==
    [][\A k \in Callers :
          ScanEnds(k) =>
              /\ RootScan(fs, FALSE) # "ok" =>
                     /\ tasks'.pc[k] = "done"
                     /\ tasks'.result[k].status = "raise"
                     /\ tasks'.result[k].error = RootScan(fs, FALSE)
              /\ tasks'.pc[k] = "done" =>
                     /\ tasks'.result[k].status = "raise"
                     /\ tasks'.result[k].error \in
                            {RootScan(fs, FALSE), RootScan(fs, TRUE)} \ {"ok"}
                     /\ tasks'.result[k].tree = <<>>
                     /\ cache' = cache /\ ~cache'.full
                     /\ tasks'.lock = 0
                     /\ tasks'.waiters = tasks.waiters]_vars

\* a build failed on a content root without 'courses'; a lesson was then written
\* below courses/c1, and a build that had waited for the lock during the failed scan
\* scanned afresh and returned the tree of the written content
C22_Witness ==
    \E j, k \in Callers :
        /\ tasks.pc[j] = "done" /\ tasks.result[j].status = "raise"
        /\ tasks.result[j].error = "ContentFileNotFoundError"
        /\ tasks.waited[k] /\ Finished(k) /\ ~tasks.result[k].hit
        /\ tasks.result[k].tree # <<>>
        /\ tasks.scans = 2
        /\ ~tasks.intervened


\* the directories directly inside dir, and whether a directory holds the file
SubDirs(f, dir) == { p \in DOMAIN f : Len(p) = Len(dir) + 1 /\ IsPrefix(dir, p) /\ IsDirAt(f, p) }
HoldsFile(f, dir, name) == IsFileAt(f, Append(dir, name))
\* the kind the files directly inside dir give it
KindOf(f, dir) ==
    IF HoldsFile(f, dir, COURSE_YML) THEN "course"
    ELSE IF HoldsFile(f, dir, MODULE_YML) THEN "module"
    ELSE "none"
\* the nodes of the directories in a list of nodes
DirNodes(nodes) == { nodes[i] : i \in { j \in 1..Len(nodes) : nodes[j].type # "lesson" } }

\* C23: in a tree build_content_tree returns, at the top level and at every depth,
\* each directory that holds _course.yml or _module.yml has one node, a course when
\* the directory holds _course.yml (with or without _module.yml), a module when it
\* holds _module.yml only, whatever the kind of the node above it.
C23_KindFromImmediateFiles ==
    (last.op = "build" /\ last.status = "ok") =>
        /\ \A d \in SubDirs(fs, CoursesDir) :
               KindOf(fs, d) # "none" =>
                   \E n \in DirNodes(last.value) :
                       AbsolutePath(n.path) = d /\ n.type = KindOf(fs, d)
        /\ \A n \in NodesOf(last.value) :
               n.type # "lesson" =>
                   /\ n.type = KindOf(fs, AbsolutePath(n.path))
                   /\ \A d \in SubDirs(fs, AbsolutePath(n.path)) :
                          KindOf(fs, d) # "none" =>
                              \E m \in DirNodes(n.children) :
                                  AbsolutePath(m.path) = d /\ m.type = KindOf(fs, d)

\* c1 holds _module.yml alone and is a top-level module; x holds _course.yml
C23_Witness ==
    /\ last.op = "build" /\ last.status = "ok"
    /\ \E n \in DirNodes(last.value) :
           /\ n.type = "module" /\ AbsolutePath(n.path) = DirC1
           /\ ~HoldsFile(fs, DirC1, COURSE_YML)
    /\ \E n \in DirNodes(last.value) : n.type = "course"


\* the files directly inside dir whose name ends in .lesson
LessonFilesIn(f, dir) ==
    { p \in DOMAIN f : /\ Len(p) = Len(dir) + 1 /\ IsPrefix(dir, p) /\ IsFileAt(f, p)
                       /\ EndsWithLesson(p[Len(p)]) }
\* the positions of the lesson leaves among the children of a node
LessonChildren(n) == { i \in 1..Len(n.children) : n.children[i].type = "lesson" }

\* C24: in a tree build_content_tree returns, the lesson children of a course or
\* module node are, one for one, the files directly inside its directory whose name
\* ends in .lesson; a lesson's name followed by .lesson is the file's name, and a
\* lesson has no children.
C24_LessonLeaves ==
    (last.op = "build" /\ last.status = "ok") =>
        \A n \in NodesOf(last.value) :
            IF n.type = "lesson" THEN n.children = <<>>
            ELSE /\ \A p \in LessonFilesIn(fs, AbsolutePath(n.path)) :
                        Cardinality({ i \in LessonChildren(n) :
                                          AbsolutePath(n.children[i].path) = p }) = 1
                 /\ \A i \in LessonChildren(n) :
                        /\ AbsolutePath(n.children[i].path)
                               \in LessonFilesIn(fs, AbsolutePath(n.path))
                        /\ n.children[i].name \o <<LESSON_EXT>>
                               = LastSegment(n.children[i].path)


\* the place of an entry's name in the order in which the directories yield entries
PlaceIn(ord, name) == CHOOSE i \in 1..Len(ord) : ord[i] = name
Place(n) == PlaceIn(last.ord, AbsolutePath(n.path)[Len(AbsolutePath(n.path))])
\* nodes is in scan order, without repetition
InScanOrder(nodes) == \A i, j \in 1..Len(nodes) : i < j => Place(nodes[i]) < Place(nodes[j])
\* the entries of dir that a tree retains: configured directories and lesson files
Retained(f, dir) ==
    { d \in SubDirs(f, dir) : KindOf(f, d) # "none" } \cup LessonFilesIn(f, dir)
PathsOf(nodes) == { AbsolutePath(nodes[i].path) : i \in 1..Len(nodes) }

\* C25: in a tree build_content_tree returns, the top-level list and the children
\* of every course or module node hold one node for each retained entry of the
\* directory (configured subdirectory, lesson file), in the order in which the scan
\* of the directory yielded the entries, directories and lessons interleaved.
C25_ScanOrder ==
    (last.op = "build" /\ last.status = "ok" /\ ~last.hit) =>
        /\ InScanOrder(last.value)
        /\ PathsOf(last.value) = { d \in SubDirs(fs, CoursesDir) : KindOf(fs, d) # "none" }
        /\ \A n \in NodesOf(last.value) :
               n.type # "lesson" =>
                   /\ InScanOrder(n.children)
                   /\ PathsOf(n.children) = Retained(fs, AbsolutePath(n.path))

\* the directories yielded their entries in the order x, c1 and c, b, m1, a: the
\* tree holds x before c1, and in c1 the lesson c, the module m1, the lesson a
C25_Witness ==
    /\ last.op = "build" /\ last.status = "ok" /\ ~last.hit
    /\ last.ord = Reverse(TreeNames)
    /\ Len(last.value) = 2
    /\ last.value[1].path = <<"courses", "/", "x">>
    /\ \E n \in NodesOf(last.value) :
           /\ Len(n.children) = 3
           /\ n.children[1].type = "lesson" /\ n.children[1].name = <<"c">>
           /\ n.children[2].type = "module"
           /\ n.children[3].type = "lesson" /\ n.children[3].name = <<"a">>


\* the top-level courses of tree that courseSlug names, by the last segment of the
\* path or by the display name, case ignored
Matches(tree, courseSlug) ==
    { i \in 1..Len(tree) :
          /\ tree[i].type = "course"
          /\ \/ Lower(AbsolutePath(tree[i].path)[Len(AbsolutePath(tree[i].path))])
                    = Lower(courseSlug)
             \/ Lower(tree[i].name) = Lower(courseSlug) }
First(S) == CHOOSE i \in S : \A j \in S : i <= j

\* C26: get_course_lesson_slugs returns the lessons of the first top-level course,
\* in tree order, that courseSlug names by path segment or by display name, case
\* ignored, and the empty list when no top-level course is so named, also when a
\* top-level module is.
C26_FirstMatchingCourse ==
    (last.op = "slugs" /\ last.status = "ok") =>
        IF Matches(cache.tree, last.arg) = {} THEN last.value = <<>>
        ELSE last.value = gather_lessons(cache.tree[First(Matches(cache.tree, last.arg))])

\* two courses match c1: x by its display name C1, listed first, and c1 by its
\* path; the lessons of x are returned, not those of c1
C26_Witness ==
    /\ last.op = "slugs" /\ last.status = "ok" /\ last.arg = <<"c1">>
    /\ Matches(cache.tree, last.arg) = {1, 2}
    /\ cache.tree[1].path = <<"courses", "/", "x">>
    /\ last.value = gather_lessons(cache.tree[1])
    /\ last.value # gather_lessons(cache.tree[2])
    /\ gather_lessons(cache.tree[2]) # <<>>


(***************************************************************************)
(* Claims about parse_lesson_file (checked under SpecMemo)                 *)
(***************************************************************************)
\* the memo holds a document for path, recorded at the file's present st_mtime
Memoized(path) ==
    path \in DOMAIN _lesson_cache /\ _lesson_cache[path].mtime = Mtime(fs, path)
\* what parsing the text now in the file yields
OfCurrentContent(path) == parse_lesson_file_from_text(UniversalNewlines(fs[path].content))

\* C27: parse_lesson_file(path) returns the memoized document, and leaves the memo
\* alone, exactly when the file exists and its st_mtime equals the one recorded with
\* the document; otherwise it reads the file and returns the document, or raises the
\* error, of the present content, recording the document with the present st_mtime
\* and recording nothing when it raises; nothing but a call that returns a parsed
\* document changes the memo, the passing of time included.
C27_MemoByMtime ==
    [][IF last'.op = "parse_lesson_file"
       THEN LET path == last'.path
            IN  IF ~Exists(fs, path)
                THEN /\ last'.result.exc = "FileNotFoundError"
                     /\ _lesson_cache' = _lesson_cache
                ELSE IF Memoized(path)
                THEN /\ last'.result = Returned(_lesson_cache[path].doc)
                     /\ _lesson_cache' = _lesson_cache
                ELSE IF ~IsFileAt(fs, path)
                THEN /\ last'.result.status = "raise"
                     /\ _lesson_cache' = _lesson_cache
                ELSE /\ last'.result = OfCurrentContent(path)
                     /\ last'.result.status = "raise" => _lesson_cache' = _lesson_cache
                     /\ last'.result.status = "ok" =>
                            /\ DOMAIN _lesson_cache' = DOMAIN _lesson_cache \cup {path}
                            /\ _lesson_cache'[path] =
                                   [mtime |-> Mtime(fs, path), doc |-> last'.result.value]
                            /\ \A q \in DOMAIN _lesson_cache \ {path} :
                                   _lesson_cache'[q] = _lesson_cache[q]
       ELSE _lesson_cache' = _lesson_cache]_vars

\* the document titled T1 had been recorded at st_mtime 0; the file was rewritten
\* after the clock advanced, and the call returned the document of the new text
C27_Witness ==
    /\ last.op = "parse_lesson_file" /\ last.path = LessonA
    /\ last.result.status = "ok"
    /\ last.result.value.title = <<"T2">>
    /\ LessonA \in DOMAIN last.memo
    /\ last.memo[LessonA].mtime = 0
    /\ last.memo[LessonA].doc.title = <<"T1">>
    /\ Mtime(fs, LessonA) > 0
    /\ _lesson_cache[LessonA] = [mtime |-> Mtime(fs, LessonA), doc |-> last.result.value]


(***************************************************************************)
(* Claims about the two parsers (checked under SpecEdit and SpecMemo)      *)
(***************************************************************************)
\* C29: when get_lesson_content finds the lesson's file and the file holds a text
\* that ULFParserService.parse accepts (update_lesson_raw wrote it), the request is
\* answered 200 with the document: the serving parser raises nothing on that text.
C29_ValidatedTextIsServed ==
    (/\ last.op = "get_lesson_content"
     /\ last.path # <<>>
     /\ IsFileAt(fs, last.path)
     /\ parse(fs[last.path].content).ok) =>
        last.status = 200


\* C30: when a file for which the memo held no entry has been parsed by
\* parse_lesson_file and its content by parse_lesson_file_from_text, the two calls
\* returned the same document or raised the same error.
C30_PathAndTextAgree ==
    (/\ last.op = "parse_lesson_file_from_text"
     /\ last.path \notin DOMAIN last.memo
     /\ last.text = fs[last.path].content) =>
        last.result = last.served

====
